---- MODULE Spec2Model ----
(***************************************************************************)
(* Wire layer of RTSPPlayer: NetworkSerializer (frame <-> datagram list),  *)
(* NetworkFrameBuilder (per-frame reassembly) and the CRC-16 that protects *)
(* each datagram.  Byte arrays are sequences of integers 0..255, 1-based   *)
(* in the model and 0-based in the code (offset k is element k + 1).       *)
(***************************************************************************)
EXTENDS Integers, Sequences, FiniteSets, TLC

VARIABLES
    endianness_,        \* NetworkSerializer::endianness_
    extended,           \* build flag NETWORK_PROTOCOL_EXTENDED == 1
    frame,              \* the NetworkFrame handed to serialize()
    datagrams,          \* list returned by the last serialize()
    collectedFrames_,   \* NetworkSerializer::collectedFrames_ (id -> builder)
    completed,          \* list returned by the last completedFrames()
    fed,                \* history: datagrams delivered since construction / clear()
    cursor,             \* number of datagrams the sender transmitted in emission order
    lastOp,             \* history: the operation that produced this state
    erased,             \* history: builders the last operation removed
    probe,              \* sizes and counts computed by the chunk-count check
    carried,            \* history: frame ids of the chunks the last datagram
                        \* carried ahead of its first offending chunk
    ms,                 \* a MemorySerializer and its I/O device
    ts,                 \* timestampMicroseconds64(): clock, static base, callers
    enc                 \* a serialize() call in progress: its loop variables

vars == <<endianness_, extended, frame, datagrams, collectedFrames_,
          completed, fed, cursor, lastOp, erased, probe, carried, ms, ts, enc>>

----------------------------------------------------------------------------
(* Protocol constants, NetworkSerializer.cpp:14-78 *)

DATAGRAM_PROTOCOL_VERSION == 256
CHUNK_MASTER_ID == 1
CHUNK_SLAVE_ID == 0
DATAGRAM_HEADER_SIZE == 10
CHUNK_MASTER_HEADER_SIZE == 29
CHUNK_SLAVE_HEADER_SIZE_EXTENDED == 29
CHUNK_SLAVE_HEADER_SIZE_BASE == 25
CHUNK_TASK_SIZE == 6
CHUNK_FLOW_SIZE == 6
FRAME_MAX_SIZE == 31850493
DATAGRAM_MAX_SIZE == 1500
CHUNK_MAX_SIZE == 512
DATAGRAM_DATA_MAX_SIZE == DATAGRAM_MAX_SIZE - DATAGRAM_HEADER_SIZE
CHUNK_MASTER_DATA_MAX_SIZE == CHUNK_MAX_SIZE - CHUNK_MASTER_HEADER_SIZE

CHUNK_SLAVE_HEADER_SIZE(ext) ==
    IF ext THEN CHUNK_SLAVE_HEADER_SIZE_EXTENDED ELSE CHUNK_SLAVE_HEADER_SIZE_BASE

CHUNK_SLAVE_DATA_MAX_SIZE(ext) == CHUNK_MAX_SIZE - CHUNK_SLAVE_HEADER_SIZE(ext)

qMin(a, b) == IF a < b THEN a ELSE b

----------------------------------------------------------------------------
(* Bytes and integers *)

(* A 32-bit quantity (quint32 or int) is represented by the signed 32-bit   *)
(* integer with the same bits, so a quint32 above 0x7FFFFFFF is negative   *)
(* here and static_cast between quint32 and int is the identity.           *)

INT_MAX == 2147483647

\* static_cast<quint8>(v), static_cast<quint16>(v)
Wrap(v, bits) == v % (2 ^ bits)

\* a + b in int arithmetic (b >= 0), wrapping in two's complement
AddInt32(a, b) ==
    IF a > INT_MAX - b THEN (a - INT_MAX - 1) + (b - INT_MAX - 1) ELSE a + b

\* a > b for two quint32
GreaterUInt32(a, b) ==
    IF (a < 0) = (b < 0) THEN a > b ELSE a < 0

RECURSIVE XorBits(_, _, _)
XorBits(a, b, n) ==
    IF n = 0 THEN 0
    ELSE ((a + b) % 2) + 2 * XorBits(a \div 2, b \div 2, n - 1)

\* a ^ b on bytes, tabulated
Xor8 == [a \in 0..255 |-> [b \in 0..255 |-> XorBits(a, b, 8)]]

\* MemorySerializer::operator<<(quintN): the bytes of an unsigned integer of
\* `width` bytes in the configured endianness (swapBytes_ makes the stored
\* order independent of the host order).
RECURSIVE LittleEndianBytes(_, _)
LittleEndianBytes(v, width) ==
    IF width = 0 THEN <<>>
    ELSE <<v % 256>> \o LittleEndianBytes(v \div 256, width - 1)

Reverse(s) == [i \in 1..Len(s) |-> s[Len(s) + 1 - i]]

WriteInt(endian, v, width) ==
    IF endian = "LittleEndian" THEN LittleEndianBytes(v, width)
    ELSE Reverse(LittleEndianBytes(v, width))

\* the value of the bytes s[lo..hi], most significant first
RECURSIVE BigEndianValue(_, _, _)
BigEndianValue(s, lo, hi) ==
    IF lo > hi THEN 0
    ELSE BigEndianValue(s, lo, hi - 1) * 256 + s[hi]

\* MemorySerializer::operator>>(quintN): `width` bytes at 0-based position
\* pos of the device; a short read yields 0.  The first of four bytes
\* carries the sign of the representation.
ReadInt(endian, s, pos, width) ==
    IF pos + width > Len(s) THEN 0
    ELSE LET b == IF endian = "LittleEndian"
                  THEN Reverse(SubSeq(s, pos + 1, pos + width))
                  ELSE SubSeq(s, pos + 1, pos + width)
         IN  IF width = 4
             THEN (IF b[1] >= 128 THEN b[1] - 256 ELSE b[1]) * 16777216
                  + BigEndianValue(b, 2, 4)
             ELSE BigEndianValue(b, 1, width)

----------------------------------------------------------------------------
(* CRC-16 (Common::Utility::crc16): CCITT polynomial 0x1021, initial value *)
(* 0xFFFF, bytes whose index is in the skip set count as zero.             *)

CRC_POLYNOMIAL == 4129
CRC_INITIAL == 65535

RECURSIVE CrcShift(_, _)
CrcShift(r, n) ==
    IF n = 0 THEN r
    ELSE CrcShift(IF r >= 32768
                  THEN XorBits((r * 2) % 65536, CRC_POLYNOMIAL, 16)
                  ELSE (r * 2) % 65536, n - 1)

CrcTable == [i \in 0..255 |-> CrcShift(i * 256, 8)]

\* crc = (crc << 8) ^ table[(crc >> 8) ^ byte]
CrcStep(crc, byte) ==
    Xor8[crc % 256][CrcTable[Xor8[crc \div 256][byte]] \div 256] * 256
        + (CrcTable[Xor8[crc \div 256][byte]] % 256)

\* Folds CrcStep over s[lo..hi] left to right.  The comparison on crc and
\* the binding of the left half fix the evaluation order (left half before
\* right half, each once).
RECURSIVE CrcRange(_, _, _, _, _)
CrcRange(crc, s, skip, lo, hi) ==
    IF crc < 0 \/ lo > hi THEN crc
    ELSE IF lo = hi
         THEN CrcStep(crc, IF (lo - 1) \in skip THEN 0 ELSE s[lo])
         ELSE CHOOSE right \in
                  { CrcRange(left, s, skip, ((lo + hi) \div 2) + 1, hi) :
                      left \in {CrcRange(crc, s, skip, lo, (lo + hi) \div 2)} } :
                  TRUE

crc16(array, skip) == CrcRange(CRC_INITIAL, array, skip, 1, Len(array))

----------------------------------------------------------------------------
(* NetworkFrame (NetworkSerializer.hpp:19-44).  task and flow are QStrings, *)
(* modelled as sequences of code points; data is a QByteArray, given to    *)
(* the encoder by its size and a byte pattern so that frames larger than   *)
(* FRAME_MAX_SIZE can be offered.                                           *)

\* byte of the frame data at 0-based offset i
DataAt(data, i) == (data.base + data.step * (i + (i \div 256))) % 256

\* frame.data.data() + from, len bytes
DataBytes(data, from, len) == [k \in 1..len |-> DataAt(data, from + k - 1)]

\* QString::toUtf8 on code points below 0x10000
RECURSIVE toUtf8(_)
toUtf8(str) ==
    IF str = <<>> THEN <<>>
    ELSE (IF Head(str) < 128 THEN <<Head(str)>>
          ELSE IF Head(str) < 2048
               THEN <<192 + (Head(str) \div 64), 128 + (Head(str) % 64)>>
               ELSE <<224 + (Head(str) \div 4096),
                      128 + ((Head(str) \div 64) % 64),
                      128 + (Head(str) % 64)>>)
         \o toUtf8(Tail(str))

\* QString::fromUtf8 on well-formed input (NUL bytes are kept as U+0000)
RECURSIVE fromUtf8(_)
fromUtf8(bytes) ==
    IF bytes = <<>> THEN <<>>
    ELSE IF bytes[1] < 128 \/ Len(bytes) < 2
         THEN <<bytes[1]>> \o fromUtf8(Tail(bytes))
    ELSE IF bytes[1] < 224 \/ Len(bytes) < 3
         THEN <<(bytes[1] % 32) * 64 + (bytes[2] % 64)>>
              \o fromUtf8(SubSeq(bytes, 3, Len(bytes)))
    ELSE <<(bytes[1] % 16) * 4096 + (bytes[2] % 64) * 64 + (bytes[3] % 64)>>
         \o fromUtf8(SubSeq(bytes, 4, Len(bytes)))

\* QByteArray::append(n, '\0')
AppendNul(bytes, n) == bytes \o [k \in 1..n |-> 0]

----------------------------------------------------------------------------
(* NetworkFrameBuilder::getChunkNumber, NetworkSerializer.cpp:235-257 *)

\* variant of ChunkNumberInner: every chunk sized like the master chunk
RECURSIVE ChunkNumberInnerMasterSized(_, _, _, _)
ChunkNumberInnerMasterSized(result, frameSize, datagramSize, ext) ==
    LET headerSize == CHUNK_MASTER_HEADER_SIZE
        dataSize   == qMin(CHUNK_MASTER_DATA_MAX_SIZE,
                           qMin(datagramSize - headerSize, frameSize))
    IN  IF ~(frameSize > 0 /\ datagramSize > 0) \/ datagramSize <= headerSize
        THEN [result |-> result, frameSize |-> frameSize]
        ELSE ChunkNumberInnerMasterSized(result + 1, frameSize - dataSize,
                                         datagramSize - headerSize - dataSize, ext)

\* inner loop: fills one datagram; returns the loop variables at its exit
RECURSIVE ChunkNumberInner(_, _, _, _)
ChunkNumberInner(result, frameSize, datagramSize, ext) ==
    LET headerSize == IF result = 0 THEN CHUNK_MASTER_HEADER_SIZE
                                    ELSE CHUNK_SLAVE_HEADER_SIZE(ext)
        dataMax    == IF result = 0 THEN CHUNK_MASTER_DATA_MAX_SIZE
                                    ELSE CHUNK_SLAVE_DATA_MAX_SIZE(ext)
        dataSize   == qMin(dataMax, qMin(datagramSize - headerSize, frameSize))
    IN  IF ~(frameSize > 0 /\ datagramSize > 0) \/ datagramSize <= headerSize
        THEN [result |-> result, frameSize |-> frameSize]
        ELSE ChunkNumberInner(result + 1, frameSize - dataSize,
                              datagramSize - headerSize - dataSize, ext)

RECURSIVE ChunkNumberOuter(_, _, _)
ChunkNumberOuter(result, frameSize, ext) ==
    IF result < 0 \/ ~(frameSize > 0) THEN result
    ELSE ChunkNumberOuter(
             ChunkNumberInner(result, frameSize, DATAGRAM_DATA_MAX_SIZE, ext).result,
             ChunkNumberInner(result, frameSize, DATAGRAM_DATA_MAX_SIZE, ext).frameSize,
             ext)

\* variant of getChunkNumber: the frame cut into full master-sized chunks,
\* the packing into datagrams ignored
getChunkNumberUnpacked(frameSize, ext) ==
    (frameSize + CHUNK_MASTER_DATA_MAX_SIZE - 1) \div CHUNK_MASTER_DATA_MAX_SIZE

getChunkNumber(frameSize, ext) == ChunkNumberOuter(0, frameSize, ext)

----------------------------------------------------------------------------
(* NetworkSerializer::serialize, NetworkSerializer.cpp:295-402 *)

\* variant of SerializeRefuses: tag lengths counted in characters
SerializeRefusesByCharacters(f) ==
    \/ f.task = <<>>
    \/ f.flow = <<>>
    \/ f.data.size = 0
    \/ Len(f.task) > CHUNK_TASK_SIZE
    \/ Len(f.flow) > CHUNK_FLOW_SIZE
    \/ f.data.size > FRAME_MAX_SIZE

\* lines 298-303: the frame is refused
SerializeRefuses(f) ==
    \/ f.task = <<>>
    \/ f.flow = <<>>
    \/ f.data.size = 0
    \/ Len(toUtf8(f.task)) > CHUNK_TASK_SIZE
    \/ Len(toUtf8(f.flow)) > CHUNK_FLOW_SIZE
    \/ f.data.size > FRAME_MAX_SIZE

\* variant of PlanSlaves: the room left in the datagram is not consulted
RECURSIVE PlanSlavesUnbounded(_, _, _, _)
PlanSlavesUnbounded(size, grow, left, ext) ==
    IF ~(grow < left /\ DATAGRAM_MAX_SIZE - size > CHUNK_SLAVE_HEADER_SIZE(ext))
    THEN size
    ELSE LET dataSize == CHUNK_SLAVE_DATA_MAX_SIZE(ext)
             packSize == qMin(dataSize, left - grow)
             allSize  == CHUNK_SLAVE_HEADER_SIZE(ext) + packSize
         IN  PlanSlavesUnbounded(size + allSize, grow + packSize, left, ext)

\* lines 320-331: reserves slave chunks while data and room remain
RECURSIVE PlanSlaves(_, _, _, _)
PlanSlaves(size, grow, left, ext) ==
    IF ~(grow < left /\ DATAGRAM_MAX_SIZE - size > CHUNK_SLAVE_HEADER_SIZE(ext))
    THEN size
    ELSE LET freeSize == DATAGRAM_MAX_SIZE - CHUNK_SLAVE_HEADER_SIZE(ext) - size
             dataSize == qMin(freeSize, CHUNK_SLAVE_DATA_MAX_SIZE(ext))
             packSize == qMin(dataSize, left - grow)
             allSize  == CHUNK_SLAVE_HEADER_SIZE(ext) + packSize
         IN  PlanSlaves(size + allSize, grow + packSize, left, ext)

\* lines 313-334: the planned size of the datagram that starts at index
PlanDatagram(index, frameSize, ext) ==
    LET left == frameSize - index
    IN  IF index = 0
        THEN PlanSlaves(DATAGRAM_HEADER_SIZE + CHUNK_MASTER_HEADER_SIZE
                            + qMin(left, CHUNK_MASTER_DATA_MAX_SIZE),
                        qMin(left, CHUNK_MASTER_DATA_MAX_SIZE), left, ext)
        ELSE PlanSlaves(DATAGRAM_HEADER_SIZE, 0, left, ext)

\* variant of WriteChunks: after the master chunk the data index is advanced
\* by the size of the whole chunk
RECURSIVE WriteChunksSkipping(_, _, _, _, _, _)
WriteChunksSkipping(chunks, written, capacity, index, slaveChunkNumber, ext) ==
    IF ~(written < capacity)
    THEN [chunks |-> chunks, index |-> index,
          slaveChunkNumber |-> slaveChunkNumber]
    ELSE IF index = 0
    THEN LET freeSize == capacity - written - CHUNK_MASTER_HEADER_SIZE
             dataSize == qMin(freeSize, CHUNK_MASTER_DATA_MAX_SIZE)
             allSize  == CHUNK_MASTER_HEADER_SIZE + dataSize
         IN  WriteChunksSkipping(Append(chunks, [id |-> CHUNK_MASTER_ID,
                                                 allSize |-> allSize,
                                                 number |-> 0,
                                                 index |-> index,
                                                 dataSize |-> dataSize]),
                                 written + allSize, capacity, index + allSize,
                                 slaveChunkNumber, ext)
    ELSE LET freeSize == capacity - written - CHUNK_SLAVE_HEADER_SIZE(ext)
             dataSize == qMin(freeSize, CHUNK_SLAVE_DATA_MAX_SIZE(ext))
             allSize  == CHUNK_SLAVE_HEADER_SIZE(ext) + dataSize
         IN  WriteChunksSkipping(Append(chunks, [id |-> CHUNK_SLAVE_ID,
                                                 allSize |-> allSize,
                                                 number |-> slaveChunkNumber,
                                                 index |-> index,
                                                 dataSize |-> dataSize]),
                                 written + allSize, capacity, index + dataSize,
                                 slaveChunkNumber + 1, ext)

\* lines 344-391: the chunks written until the datagram holds `capacity`
\* bytes; `written` is datagram.size().  Each chunk is recorded with the
\* header fields that vary and the data range it copies.
RECURSIVE WriteChunks(_, _, _, _, _, _)
WriteChunks(chunks, written, capacity, index, slaveChunkNumber, ext) ==
    IF ~(written < capacity)
    THEN [chunks |-> chunks, index |-> index,
          slaveChunkNumber |-> slaveChunkNumber]
    ELSE IF index = 0
    THEN LET freeSize == capacity - written - CHUNK_MASTER_HEADER_SIZE
             dataSize == qMin(freeSize, CHUNK_MASTER_DATA_MAX_SIZE)
             allSize  == CHUNK_MASTER_HEADER_SIZE + dataSize
         IN  WriteChunks(Append(chunks, [id |-> CHUNK_MASTER_ID,
                                         allSize |-> allSize,
                                         number |-> 0,
                                         index |-> index,
                                         dataSize |-> dataSize]),
                         written + allSize, capacity, index + dataSize,
                         slaveChunkNumber, ext)
    ELSE LET freeSize == capacity - written - CHUNK_SLAVE_HEADER_SIZE(ext)
             dataSize == qMin(freeSize, CHUNK_SLAVE_DATA_MAX_SIZE(ext))
             allSize  == CHUNK_SLAVE_HEADER_SIZE(ext) + dataSize
         IN  WriteChunks(Append(chunks, [id |-> CHUNK_SLAVE_ID,
                                         allSize |-> allSize,
                                         number |-> slaveChunkNumber,
                                         index |-> index,
                                         dataSize |-> dataSize]),
                         written + allSize, capacity, index + dataSize,
                         slaveChunkNumber + 1, ext)

\* lines 312-401 without the bytes: for each datagram its planned size and
\* its chunks
RECURSIVE SerializePlan(_, _, _, _, _)
SerializePlan(plan, index, slaveChunkNumber, frameSize, ext) ==
    IF Len(plan) < 0 \/ ~(index < frameSize) THEN plan
    ELSE LET size == PlanDatagram(index, frameSize, ext)
             w    == WriteChunks(<<>>, DATAGRAM_HEADER_SIZE, size, index,
                                 slaveChunkNumber, ext)
         IN  SerializePlan(Append(plan, [size |-> size, chunks |-> w.chunks]),
                           w.index, w.slaveChunkNumber, frameSize, ext)

\* lines 353-363 and 375-387: the bytes of one chunk
ChunkBytes(f, c, endian, ext) ==
    <<c.id>>
    \o WriteInt(endian, Wrap(c.allSize, 16), 2)
    \o AppendNul(toUtf8(f.task), CHUNK_TASK_SIZE - Len(toUtf8(f.task)))
    \o AppendNul(toUtf8(f.flow), CHUNK_FLOW_SIZE - Len(toUtf8(f.flow)))
    \o WriteInt(endian, f.id, 4)
    \o <<Wrap(f.interpretation, 8)>>
    \o <<Wrap(f.priority, 8)>>
    \o WriteInt(endian, Wrap(f.time, 16), 2)
    \o (IF c.id = CHUNK_MASTER_ID
        THEN WriteInt(endian, Wrap(f.number, 16), 2)
             \o WriteInt(endian, f.data.size, 4)
        ELSE WriteInt(endian, Wrap(c.number, 16), 2)
             \o (IF ext THEN WriteInt(endian, c.index, 4) ELSE <<>>))
    \o DataBytes(f.data, c.index, c.dataSize)

RECURSIVE ChunksBytes(_, _, _, _)
ChunksBytes(f, chunks, endian, ext) ==
    IF chunks = <<>> THEN <<>>
    ELSE ChunkBytes(f, Head(chunks), endian, ext)
         \o ChunksBytes(f, Tail(chunks), endian, ext)

\* lines 339-342: the datagram header, CRC field still zero
DatagramHeader(size, endian) ==
    WriteInt(endian, Wrap(DATAGRAM_PROTOCOL_VERSION, 16), 2)
    \o WriteInt(endian, Wrap(size, 16), 2)
    \o WriteInt(endian, 0, 4)
    \o WriteInt(endian, 0, 2)

\* lines 393-394: seek(8) and write the CRC-16 over bytes 8..9
StampCrc(datagram, endian) ==
    SubSeq(datagram, 1, 8)
    \o WriteInt(endian, crc16(datagram, {}), 2)
    \o SubSeq(datagram, 11, Len(datagram))

DatagramBytes(f, d, endian, ext) ==
    StampCrc(DatagramHeader(d.size, endian) \o ChunksBytes(f, d.chunks, endian, ext),
             endian)

serialize(f, endian, ext) ==
    IF SerializeRefuses(f) THEN <<>>
    ELSE LET plan == SerializePlan(<<>>, 0, 1, f.data.size, ext)
         IN  [k \in 1..Len(plan) |-> DatagramBytes(f, plan[k], endian, ext)]

----------------------------------------------------------------------------
(* NetworkFrameBuilder, NetworkSerializer.hpp:47-105, .cpp:89-228 *)

\* a byte QByteArray::resize() leaves uninitialized: stands for any value
Indeterminate == 256

\* NetworkFrameBuilder{ }: default members.  capacity is
\* frame_.data.capacity(), which only the base protocol reads (line 217):
\* reserve() sets it and squeeze() trims it.
NewBuilder ==
    [masterChunkFound_ |-> FALSE,
     collectedChunks_  |-> 0,
     detectedChunks_   |-> 0,
     capacity          |-> 0,
     frame_ |-> [id |-> 0, number |-> 0, interpretation |-> 0, time |-> 0,
                 priority |-> 10, task |-> <<>>, flow |-> <<>>, data |-> <<>>]]

\* variant of isFrameCompleted: complete only past the detected count
isFrameCompletedPast(b) ==
    b.detectedChunks_ # 0 /\ b.collectedChunks_ > b.detectedChunks_

isFrameCompleted(b) ==
    b.detectedChunks_ # 0 /\ b.collectedChunks_ = b.detectedChunks_

\* QByteArray::resize(size)
Resize(data, size) ==
    IF size <= Len(data) THEN SubSeq(data, 1, size)
    ELSE data \o [k \in 1..(size - Len(data)) |-> Indeterminate]

\* QByteArray::replace(pos, len, after): overwrites in place when the range
\* lies inside the array and has the length of `after`, else remove + insert
Replace(data, pos, len, after) ==
    IF len = Len(after) /\ pos + len <= Len(data)
    THEN [k \in 1..Len(data) |->
            IF k > pos /\ k <= pos + len THEN after[k - pos] ELSE data[k]]
    ELSE SubSeq(data, 1, qMin(pos, Len(data)))
         \o [k \in 1..(pos - qMin(pos, Len(data))) |-> 32]
         \o after
         \o SubSeq(data, pos + len + 1, Len(data))

\* the metadata assignments of lines 126-132, 155-161 and 197-203
SeedMetadata(f, partialFrame) ==
    [f EXCEPT !.id = partialFrame.id,
              !.number = partialFrame.number,
              !.interpretation = partialFrame.interpretation,
              !.time = partialFrame.time,
              !.priority = partialFrame.priority,
              !.task = partialFrame.task,
              !.flow = partialFrame.flow]

\* lines 170 and 225: squeeze() when the frame became complete
Squeeze(b) ==
    IF isFrameCompleted(b) THEN [b EXCEPT !.capacity = Len(b.frame_.data)] ELSE b

\* variant of MasterChunkRefused: a master is refused once any chunk arrived
MasterChunkRefusedAfterSlave(b, frameSize, partialFrame) ==
    \/ isFrameCompleted(b)
    \/ b.masterChunkFound_
    \/ b.collectedChunks_ # 0
    \/ frameSize <= 0
    \/ frameSize < Len(partialFrame.data)
    \/ partialFrame.data = <<>>

\* variant of MasterChunkRefused: a repeated master is not recognised
MasterChunkRefusedUnlessEmpty(b, frameSize, partialFrame) ==
    \/ frameSize <= 0
    \/ frameSize < Len(partialFrame.data)
    \/ partialFrame.data = <<>>

\* lines 117-122: the master chunk is refused outright
MasterChunkRefused(b, frameSize, partialFrame) ==
    \/ isFrameCompleted(b)
    \/ b.masterChunkFound_
    \/ frameSize <= 0
    \/ frameSize < Len(partialFrame.data)
    \/ partialFrame.data = <<>>

\* variant of putMasterChunk: a master chunk that arrives after slave chunks
\* seeds the metadata again
putMasterChunkReseeding(b, frameSize, partialFrame, ext) ==
    IF MasterChunkRefused(b, frameSize, partialFrame)
    THEN [ok |-> FALSE, builder |-> b]
    ELSE IF ext
    THEN LET detectedChunks == getChunkNumber(frameSize, ext)
             data == Replace(IF Len(b.frame_.data) < frameSize
                             THEN Resize(b.frame_.data, frameSize)
                             ELSE b.frame_.data,
                             0, Len(partialFrame.data), partialFrame.data)
         IN  IF b.collectedChunks_ # 0 /\ (\/ detectedChunks < b.detectedChunks_
                                           \/ detectedChunks < b.collectedChunks_ + 1)
             THEN [ok |-> FALSE, builder |-> b]
             ELSE [ok |-> TRUE,
                   builder |-> Squeeze(
                     [b EXCEPT !.frame_ = [SeedMetadata(b.frame_, partialFrame)
                                             EXCEPT !.data = data],
                               !.collectedChunks_ = b.collectedChunks_ + 1,
                               !.detectedChunks_ = detectedChunks,
                               !.masterChunkFound_ = TRUE])]
    ELSE LET capacity == IF frameSize > b.capacity THEN frameSize ELSE b.capacity
             data     == b.frame_.data \o partialFrame.data
         IN  [ok |-> TRUE,
              builder |-> Squeeze(
                [b EXCEPT !.frame_ = [SeedMetadata(b.frame_, partialFrame)
                                        EXCEPT !.data = data],
                          !.capacity = IF Len(data) > capacity THEN Len(data)
                                                               ELSE capacity,
                          !.collectedChunks_ = 1,
                          !.detectedChunks_ = getChunkNumber(frameSize, ext),
                          !.masterChunkFound_ = TRUE])]

\* lines 114-173; returns the builder after the call and the value returned
putMasterChunk(b, frameSize, partialFrame, ext) ==
    IF MasterChunkRefused(b, frameSize, partialFrame)
    THEN [ok |-> FALSE, builder |-> b]
    ELSE IF ext
    THEN IF b.collectedChunks_ = 0
         THEN LET data == Replace(IF Len(b.frame_.data) < frameSize
                                  THEN Resize(b.frame_.data, frameSize)
                                  ELSE b.frame_.data,
                                  0, Len(partialFrame.data), partialFrame.data)
              IN  [ok |-> TRUE,
                   builder |-> Squeeze(
                     [b EXCEPT !.frame_ = [SeedMetadata(b.frame_, partialFrame)
                                             EXCEPT !.data = data],
                               !.collectedChunks_ = 1,
                               !.detectedChunks_ = getChunkNumber(frameSize, ext),
                               !.masterChunkFound_ = TRUE])]
         ELSE LET detectedChunks == getChunkNumber(frameSize, ext)
                  data == Replace(IF Len(b.frame_.data) < frameSize
                                  THEN Resize(b.frame_.data, frameSize)
                                  ELSE b.frame_.data,
                                  0, Len(partialFrame.data), partialFrame.data)
              IN  IF \/ detectedChunks < b.detectedChunks_
                     \/ detectedChunks < b.collectedChunks_ + 1
                  THEN [ok |-> FALSE, builder |-> b]
                  ELSE [ok |-> TRUE,
                        builder |-> Squeeze(
                          [b EXCEPT !.frame_.number = partialFrame.number,
                                    !.frame_.data = data,
                                    !.collectedChunks_ = b.collectedChunks_ + 1,
                                    !.detectedChunks_ = detectedChunks,
                                    !.masterChunkFound_ = TRUE])]
    ELSE LET capacity == IF frameSize > b.capacity THEN frameSize ELSE b.capacity
             data     == b.frame_.data \o partialFrame.data
         IN  [ok |-> TRUE,
              builder |-> Squeeze(
                [b EXCEPT !.frame_ = [SeedMetadata(b.frame_, partialFrame)
                                        EXCEPT !.data = data],
                          !.capacity = IF Len(data) > capacity THEN Len(data)
                                                               ELSE capacity,
                          !.collectedChunks_ = 1,
                          !.detectedChunks_ = getChunkNumber(frameSize, ext),
                          !.masterChunkFound_ = TRUE])]

\* variant of putSlaveChunk: the base protocol puts the payload in front of
\* the data collected so far
putSlaveChunkInFront(b, frameOffset, partialFrame, ext) ==
    IF ext
    THEN LET frameSize == AddInt32(frameOffset, Len(partialFrame.data))
         IN  IF \/ isFrameCompleted(b)
                \/ frameOffset <= 0
                \/ partialFrame.data = <<>>
                \/ (b.masterChunkFound_ /\ frameSize > Len(b.frame_.data))
             THEN [ok |-> FALSE, builder |-> b]
             ELSE LET seeded == IF b.collectedChunks_ = 0
                                THEN SeedMetadata(b.frame_, partialFrame)
                                ELSE b.frame_
                      data == Replace(IF Len(b.frame_.data) < frameSize
                                      THEN Resize(b.frame_.data, frameSize)
                                      ELSE b.frame_.data,
                                      frameOffset, Len(partialFrame.data),
                                      partialFrame.data)
                  IN  [ok |-> TRUE,
                       builder |-> Squeeze(
                         [b EXCEPT !.frame_ = [seeded EXCEPT !.data = data],
                                   !.collectedChunks_ = b.collectedChunks_ + 1])]
    ELSE IF \/ isFrameCompleted(b)
            \/ ~b.masterChunkFound_
            \/ partialFrame.data = <<>>
            \/ b.capacity < Len(b.frame_.data) + Len(partialFrame.data)
         THEN [ok |-> FALSE, builder |-> b]
         ELSE [ok |-> TRUE,
               builder |-> Squeeze(
                 [b EXCEPT !.frame_.data = partialFrame.data \o b.frame_.data,
                           !.collectedChunks_ = b.collectedChunks_ + 1])]

\* lines 182-228
putSlaveChunk(b, frameOffset, partialFrame, ext) ==
    IF ext
    THEN LET frameSize == AddInt32(frameOffset, Len(partialFrame.data))
         IN  IF \/ isFrameCompleted(b)
                \/ frameOffset <= 0
                \/ partialFrame.data = <<>>
                \/ (b.masterChunkFound_ /\ frameSize > Len(b.frame_.data))
             THEN [ok |-> FALSE, builder |-> b]
             ELSE LET seeded == IF b.collectedChunks_ = 0
                                THEN SeedMetadata(b.frame_, partialFrame)
                                ELSE b.frame_
                      data == Replace(IF Len(b.frame_.data) < frameSize
                                      THEN Resize(b.frame_.data, frameSize)
                                      ELSE b.frame_.data,
                                      frameOffset, Len(partialFrame.data),
                                      partialFrame.data)
                  IN  [ok |-> TRUE,
                       builder |-> Squeeze(
                         [b EXCEPT !.frame_ = [seeded EXCEPT !.data = data],
                                   !.collectedChunks_ = b.collectedChunks_ + 1])]
    ELSE IF \/ isFrameCompleted(b)
            \/ ~b.masterChunkFound_
            \/ partialFrame.data = <<>>
            \/ b.capacity < Len(b.frame_.data) + Len(partialFrame.data)
         THEN [ok |-> FALSE, builder |-> b]
         ELSE [ok |-> TRUE,
               builder |-> Squeeze(
                 [b EXCEPT !.frame_.data = b.frame_.data \o partialFrame.data,
                           !.collectedChunks_ = b.collectedChunks_ + 1])]

----------------------------------------------------------------------------
(* NetworkSerializer::deserialize, NetworkSerializer.cpp:415-574 *)

\* variant of FindOrInsert: an insertion replaces the table
FindOrInsertAlone(table, frameID) ==
    IF frameID \in DOMAIN table THEN table ELSE (frameID :> NewBuilder)

\* collectedFrames_.find(frameID), inserting NetworkFrameBuilder{ } if absent
FindOrInsert(table, frameID) ==
    IF frameID \in DOMAIN table THEN table ELSE table @@ (frameID :> NewBuilder)

\* lines 488-496 and 550-557: the NetworkFrame built from a chunk
PartialFrame(datagram, pos, endian, frameNumber, data) ==
    [id             |-> ReadInt(endian, datagram, pos + 15, 4),
     number         |-> frameNumber,
     interpretation |-> datagram[pos + 20],
     time           |-> ReadInt(endian, datagram, pos + 21, 2),
     priority       |-> datagram[pos + 21],
     task           |-> fromUtf8(SubSeq(datagram, pos + 4, pos + 9)),
     flow           |-> fromUtf8(SubSeq(datagram, pos + 10, pos + 15)),
     data           |-> data]

\* variant of ParseChunks: a chunk with an unknown id is stepped over by its
\* chunkSize and the loop goes on
RECURSIVE ParseChunksPastUnknown(_, _, _, _, _)
ParseChunksPastUnknown(table, datagram, pos, endian, ext) ==
    LET available == Len(datagram) - pos
        chunkID   == datagram[pos + 1]
        chunkSize == ReadInt(endian, datagram, pos + 1, 2)
        frameID   == ReadInt(endian, datagram, pos + 15, 4)
    IN  IF ~(available > qMin(CHUNK_MASTER_HEADER_SIZE, CHUNK_SLAVE_HEADER_SIZE(ext)))
        THEN table
        ELSE IF chunkID = CHUNK_MASTER_ID
        THEN IF available - 1 < CHUNK_MASTER_HEADER_SIZE THEN table
             ELSE LET frameNumber == ReadInt(endian, datagram, pos + 23, 2)
                      frameSize   == ReadInt(endian, datagram, pos + 25, 4)
                      after       == pos + CHUNK_MASTER_HEADER_SIZE
                      size        == chunkSize - CHUNK_MASTER_HEADER_SIZE
                  IN  IF \/ chunkSize <= CHUNK_MASTER_HEADER_SIZE
                         \/ chunkSize > CHUNK_MAX_SIZE
                         \/ GreaterUInt32(frameSize, FRAME_MAX_SIZE)
                         \/ size > Len(datagram) - after
                      THEN table
                      ELSE ParseChunksPastUnknown(
                               [FindOrInsert(table, frameID) EXCEPT ![frameID] =
                                   putMasterChunk(
                                       @, frameSize,
                                       PartialFrame(datagram, pos, endian, frameNumber,
                                                    SubSeq(datagram, after + 1, after + size)),
                                       ext).builder],
                               datagram, after + size, endian, ext)
        ELSE IF chunkID = CHUNK_SLAVE_ID
        THEN IF available - 1 < CHUNK_SLAVE_HEADER_SIZE(ext) THEN table
             ELSE LET frameOffset == IF ext THEN ReadInt(endian, datagram, pos + 25, 4)
                                            ELSE 0
                      after       == pos + CHUNK_SLAVE_HEADER_SIZE(ext)
                      size        == chunkSize - CHUNK_SLAVE_HEADER_SIZE(ext)
                      partial     == PartialFrame(datagram, pos, endian, 0,
                                                  SubSeq(datagram, after + 1, after + size))
                  IN  IF \/ chunkSize <= CHUNK_SLAVE_HEADER_SIZE(ext)
                         \/ chunkSize > CHUNK_MAX_SIZE
                         \/ size > Len(datagram) - after
                      THEN table
                      ELSE ParseChunksPastUnknown(
                               IF ext
                               THEN [FindOrInsert(table, frameID) EXCEPT ![frameID] =
                                       putSlaveChunk(@, frameOffset, partial, ext).builder]
                               ELSE IF frameID \in DOMAIN table
                                    THEN [table EXCEPT ![frameID] =
                                            putSlaveChunk(@, 0, partial, ext).builder]
                                    ELSE table,
                               datagram, after + size, endian, ext)
        ELSE IF chunkSize > 0 /\ chunkSize <= available
             THEN ParseChunksPastUnknown(table, datagram, pos + chunkSize, endian, ext)
             ELSE table

\* lines 439-573: the chunk loop from 0-based position pos (the position of
\* the next chunk id); returns collectedFrames_ at the exit of the loop
RECURSIVE ParseChunks(_, _, _, _, _)
ParseChunks(table, datagram, pos, endian, ext) ==
    LET available == Len(datagram) - pos
        chunkID   == datagram[pos + 1]
        chunkSize == ReadInt(endian, datagram, pos + 1, 2)
        frameID   == ReadInt(endian, datagram, pos + 15, 4)
    IN  IF ~(available > qMin(CHUNK_MASTER_HEADER_SIZE, CHUNK_SLAVE_HEADER_SIZE(ext)))
        THEN table
        ELSE IF chunkID = CHUNK_MASTER_ID
        THEN IF available - 1 < CHUNK_MASTER_HEADER_SIZE THEN table
             ELSE LET frameNumber == ReadInt(endian, datagram, pos + 23, 2)
                      frameSize   == ReadInt(endian, datagram, pos + 25, 4)
                      after       == pos + CHUNK_MASTER_HEADER_SIZE
                      size        == chunkSize - CHUNK_MASTER_HEADER_SIZE
                  IN  IF \/ chunkSize <= CHUNK_MASTER_HEADER_SIZE
                         \/ chunkSize > CHUNK_MAX_SIZE
                         \/ GreaterUInt32(frameSize, FRAME_MAX_SIZE)
                         \/ size > Len(datagram) - after
                      THEN table
                      ELSE ParseChunks(
                               [FindOrInsert(table, frameID) EXCEPT ![frameID] =
                                   putMasterChunk(
                                       @, frameSize,
                                       PartialFrame(datagram, pos, endian, frameNumber,
                                                    SubSeq(datagram, after + 1, after + size)),
                                       ext).builder],
                               datagram, after + size, endian, ext)
        ELSE IF chunkID = CHUNK_SLAVE_ID
        THEN IF available - 1 < CHUNK_SLAVE_HEADER_SIZE(ext) THEN table
             ELSE LET frameOffset == IF ext THEN ReadInt(endian, datagram, pos + 25, 4)
                                            ELSE 0
                      after       == pos + CHUNK_SLAVE_HEADER_SIZE(ext)
                      size        == chunkSize - CHUNK_SLAVE_HEADER_SIZE(ext)
                      partial     == PartialFrame(datagram, pos, endian, 0,
                                                  SubSeq(datagram, after + 1, after + size))
                  IN  IF \/ chunkSize <= CHUNK_SLAVE_HEADER_SIZE(ext)
                         \/ chunkSize > CHUNK_MAX_SIZE
                         \/ size > Len(datagram) - after
                      THEN table
                      ELSE ParseChunks(
                               IF ext
                               THEN [FindOrInsert(table, frameID) EXCEPT ![frameID] =
                                       putSlaveChunk(@, frameOffset, partial, ext).builder]
                               ELSE IF frameID \in DOMAIN table
                                    THEN [table EXCEPT ![frameID] =
                                            putSlaveChunk(@, 0, partial, ext).builder]
                                    ELSE table,
                               datagram, after + size, endian, ext)
        ELSE table

\* variant of DatagramRejected: the CRC is not compared
DatagramRejectedWithoutCrc(datagram, endian) ==
    \/ Len(datagram) <= DATAGRAM_HEADER_SIZE
    \/ Len(datagram) > DATAGRAM_MAX_SIZE
    \/ ReadInt(endian, datagram, 0, 2) # DATAGRAM_PROTOCOL_VERSION
    \/ ReadInt(endian, datagram, 2, 2) # Len(datagram)

\* variant of DatagramRejected: the version is not compared
DatagramRejectedWithoutVersion(datagram, endian) ==
    \/ Len(datagram) <= DATAGRAM_HEADER_SIZE
    \/ Len(datagram) > DATAGRAM_MAX_SIZE
    \/ ReadInt(endian, datagram, 2, 2) # Len(datagram)
    \/ ReadInt(endian, datagram, 8, 2) # crc16(datagram, {8, 9})

\* variant of DatagramRejected: the size field is not compared
DatagramRejectedWithoutSize(datagram, endian) ==
    \/ Len(datagram) <= DATAGRAM_HEADER_SIZE
    \/ Len(datagram) > DATAGRAM_MAX_SIZE
    \/ ReadInt(endian, datagram, 0, 2) # DATAGRAM_PROTOCOL_VERSION
    \/ ReadInt(endian, datagram, 8, 2) # crc16(datagram, {8, 9})

\* lines 416-437: the datagram is dropped before any chunk is read
DatagramRejected(datagram, endian) ==
    \/ Len(datagram) <= DATAGRAM_HEADER_SIZE
    \/ Len(datagram) > DATAGRAM_MAX_SIZE
    \/ ReadInt(endian, datagram, 0, 2) # DATAGRAM_PROTOCOL_VERSION
    \/ ReadInt(endian, datagram, 2, 2) # Len(datagram)
    \/ ReadInt(endian, datagram, 8, 2) # crc16(datagram, {8, 9})

deserialize(table, datagram, endian, ext) ==
    IF DatagramRejected(datagram, endian) THEN table
    ELSE ParseChunks(table, datagram, DATAGRAM_HEADER_SIZE, endian, ext)

----------------------------------------------------------------------------
(* NetworkSerializer::completedFrames and clear, NetworkSerializer.cpp:588-603 *)

CompleteIds(table) == {k \in DOMAIN table : isFrameCompleted(table[k])}

\* variant of EraseCompleted: every builder visited is erased
EraseVisited(table) == [k \in {} |-> table[k]]

\* collectedFrames_ after every complete builder was erased
EraseCompleted(table) ==
    [k \in DOMAIN table \ CompleteIds(table) |-> table[k]]

\* the orders in which a QHash iteration can visit the keys in S
Orderings(S) ==
    {o \in [1..Cardinality(S) -> S] : \A a, b \in 1..Cardinality(S) : a # b => o[a] # o[b]}

\* variant of clear: only the complete builders are dropped
clearCompleted(table) == EraseCompleted(table)

clear(table) == <<>>

----------------------------------------------------------------------------
(* Frames offered to the encoder *)

Pattern(size, base, step) == [size |-> size, base |-> base, step |-> step]

\* task "A", flow "B", every field with distinct bytes
FrameA(data) ==
    [id |-> 16909060, number |-> 4660, interpretation |-> 7, time |-> 43981,
     priority |-> 10, task |-> <<65>>, flow |-> <<66>>, data |-> data]

\* id 0xFFFFFFFF, task of three two-byte characters (6 bytes), flow of six
\* characters
FrameB(data) ==
    [id |-> -1, number |-> 65535, interpretation |-> 255, time |-> 1,
     priority |-> 0, task |-> <<233, 233, 233>>,
     flow |-> <<102, 108, 111, 119, 48, 49>>, data |-> data]

\* frames serialize() refuses
RefusedFrames ==
    { [FrameA(Pattern(100, 171, 0)) EXCEPT !.task = <<>>],
      [FrameA(Pattern(100, 171, 0)) EXCEPT !.flow = <<>>],
      FrameA(Pattern(0, 171, 0)),
      [FrameA(Pattern(100, 171, 0)) EXCEPT !.task = <<65, 66, 67, 68, 69, 70, 71>>],
      [FrameA(Pattern(100, 171, 0)) EXCEPT !.flow = <<233, 233, 233, 233>>],
      FrameA(Pattern(FRAME_MAX_SIZE + 1, 3, 1)) }

\* what the receiver must deliver for f: QString comparison up to the NUL
\* padding of task and flow
RECURSIVE StripNul(_)
StripNul(str) ==
    IF str # <<>> /\ str[Len(str)] = 0 THEN StripNul(SubSeq(str, 1, Len(str) - 1))
    ELSE str

SameFrame(received, f) ==
    /\ received.id = f.id
    /\ received.number = f.number
    /\ received.interpretation = f.interpretation
    /\ received.time = f.time
    /\ received.priority = f.priority
    /\ StripNul(received.task) = StripNul(f.task)
    /\ StripNul(received.flow) = StripNul(f.flow)
    /\ received.data = DataBytes(f.data, 0, f.data.size)

----------------------------------------------------------------------------
(* Damaged datagrams offered to the decoder *)

\* the byte at 0-based offset k replaced by b
SetByte(datagram, k, b) == [datagram EXCEPT ![k + 1] = b]

\* every bit of the byte at offset k inverted
Alter(datagram, k) == SetByte(datagram, k, Xor8[datagram[k + 1]][255])

\* one bit of the byte at offset k inverted
FlipBit(datagram, k, bit) == SetByte(datagram, k, Xor8[datagram[k + 1]][2 ^ bit])

\* a 16-bit header field rewritten and the CRC recomputed, as a sender with
\* a different version or a wrong size would emit it
Restamp(datagram, endian) ==
    StampCrc(SubSeq(datagram, 1, 8) \o <<0, 0>> \o SubSeq(datagram, 11, Len(datagram)),
             endian)

SetVersion(datagram, v, endian) ==
    Restamp(WriteInt(endian, v, 2) \o SubSeq(datagram, 3, Len(datagram)), endian)

SetSize(datagram, v, endian) ==
    Restamp(SubSeq(datagram, 1, 2) \o WriteInt(endian, v, 2)
            \o SubSeq(datagram, 5, Len(datagram)), endian)

\* versions other than 0x0100, among them 0x0001 (0x0100 in the other byte order)
OtherVersions == {0, 1, 255, 257, 512, 65535}

\* inputs the length gate must stop: nothing, a lone byte, a bare header with
\* matching size field and CRC, and a datagram extended to 1501 bytes with
\* matching size field and CRC
BadLengthInputs(datagram, endian) ==
    { <<>>,
      SubSeq(datagram, 1, 1),
      SetSize(SubSeq(datagram, 1, DATAGRAM_HEADER_SIZE), DATAGRAM_HEADER_SIZE, endian),
      SetSize(AppendNul(datagram, DATAGRAM_MAX_SIZE + 1 - Len(datagram)),
              DATAGRAM_MAX_SIZE + 1, endian) }

\* inputs whose size field differs from their length, CRC matching
BadSizeInputs(datagram, endian) ==
    { SetSize(datagram, Len(datagram) + 1, endian),
      SetSize(datagram, Len(datagram) - 1, endian),
      Restamp(Append(datagram, 0), endian),
      Restamp(SubSeq(datagram, 1, Len(datagram) - 1), endian) }

----------------------------------------------------------------------------
(* State machine *)

MaxFed == 3
MaxPasses == 2
MaxCorrupted == 1
MaxFlipOffset == 40
MaxProbeSize == 3000
MaxPacked == 2

NoneErased == [complete |-> 0, incomplete |-> 0]

\* no MemorySerializer under test, no timestamp caller
NoSerializer == [device |-> "unused"]

NoClock == [clock |-> 0]

\* no serialize() call in progress
NoEncoder == [pc |-> "idle"]

NoProbe == [size |-> 0, chunkNumber |-> 0, datagrams |-> 0, chunks |-> 0]

InitWith(frames) ==
    /\ endianness_ \in {"BigEndian", "LittleEndian"}
    /\ extended \in BOOLEAN
    /\ frame \in frames
    /\ datagrams = <<>>
    /\ collectedFrames_ = <<>>
    /\ completed = <<>>
    /\ fed = <<>>
    /\ cursor = 0
    /\ lastOp = "construct"
    /\ erased = NoneErased
    /\ probe = NoProbe
    /\ carried = {}
    /\ ms = NoSerializer
    /\ ts = NoClock
    /\ enc = NoEncoder

\* the sender encodes the frame
Serialize ==
    /\ lastOp = "construct"
    /\ datagrams' = serialize(frame, endianness_, extended)
    /\ lastOp' = "serialize"
    /\ UNCHANGED <<endianness_, extended, frame, collectedFrames_, completed,
                   fed, cursor, erased, probe, carried, ms, ts, enc>>

\* line 459 / 520: the frame id of the first chunk of a datagram
FirstChunkFrameId(datagram) ==
    ReadInt(endianness_, datagram, DATAGRAM_HEADER_SIZE + 15, 4)

\* deserialize(datagram); the delivery is logged as `entry`, and `ids` are
\* the frame ids of the chunks ahead of the first offending chunk
FeedCarrying(datagram, entry, op, ids) ==
    /\ collectedFrames_' = deserialize(collectedFrames_, datagram, endianness_, extended)
    /\ fed' = Append(fed, entry)
    /\ completed' = <<>>
    /\ lastOp' = op
    /\ erased' = NoneErased
    /\ carried' = ids
    /\ UNCHANGED <<endianness_, extended, frame, datagrams, probe, ms, ts, enc>>

\* a datagram of the list (entry > 0) carries chunks of one frame; a
\* datagram stopped at its header (entry < 0) carries none
Feed(datagram, entry, op) ==
    FeedCarrying(datagram, entry, op,
                 IF entry > 0 THEN {FirstChunkFrameId(datagram)} ELSE {})

\* an intact datagram of the list arrives, in any order, any number of times
Deserialize(i) ==
    /\ Len(fed) < MaxFed
    /\ Feed(datagrams[i], i, "deserialize")
    /\ UNCHANGED cursor

\* completedFrames(): the complete builders are returned and erased
CompletedFrames ==
    /\ lastOp # "construct"
    /\ \E order \in Orderings(CompleteIds(collectedFrames_)) :
          completed' = [k \in 1..Len(order) |-> collectedFrames_[order[k]].frame_]
    /\ collectedFrames_' = EraseCompleted(collectedFrames_)
    /\ fed' = IF CompleteIds(collectedFrames_) = {} THEN fed ELSE Append(fed, 0)
    /\ lastOp' = "completedFrames"
    /\ erased' = [complete   |-> Cardinality(CompleteIds(collectedFrames_)),
                  incomplete |-> 0]
    /\ carried' = {}
    /\ UNCHANGED <<endianness_, extended, frame, datagrams, cursor, probe, ms, ts, enc>>

Clear ==
    /\ lastOp # "construct"
    /\ collectedFrames_' = clear(collectedFrames_)
    /\ fed' = <<>>
    /\ cursor' = 0
    /\ completed' = <<>>
    /\ lastOp' = "clear"
    /\ erased' = [complete   |-> Cardinality(CompleteIds(collectedFrames_)),
                  incomplete |-> Cardinality(DOMAIN collectedFrames_
                                                \ CompleteIds(collectedFrames_))]
    /\ carried' = {}
    /\ UNCHANGED <<endianness_, extended, frame, datagrams, probe, ms, ts, enc>>

(* Deliveries in emission order: the sender walks the list, a datagram may  *)
(* be damaged in transit, and a damaged one may be sent again.              *)

NextIndex == (cursor % Len(datagrams)) + 1

Corrupted == SelectSeq(fed, LAMBDA e : e < 0)

\* the last delivery of datagram i was a damaged copy
LastWasCorrupted(i) ==
    /\ \E k \in 1..Len(fed) : fed[k] = -i
    /\ \A k \in 1..Len(fed) :
          fed[k] = i => \E m \in (k + 1)..Len(fed) : fed[m] = -i

\* the offsets altered in transit: offset 30 and the last payload byte
AlteredOffsets(datagram) == {30, Len(datagram) - 1}

Transmit ==
    /\ datagrams # <<>>
    /\ cursor < MaxPasses * Len(datagrams)
    /\ Feed(datagrams[NextIndex], NextIndex, "deserialize")
    /\ cursor' = cursor + 1

TransmitCorrupted(k) ==
    /\ datagrams # <<>>
    /\ cursor < MaxPasses * Len(datagrams)
    /\ Len(Corrupted) < MaxCorrupted
    /\ k \in AlteredOffsets(datagrams[NextIndex])
    /\ Feed(Alter(datagrams[NextIndex], k), -NextIndex, "corrupted")
    /\ cursor' = cursor + 1

Retransmit(i) ==
    /\ LastWasCorrupted(i)
    /\ Feed(datagrams[i], i, "deserialize")
    /\ UNCHANGED cursor

(* Deliveries of malformed input *)

FlipOffsets(datagram) ==
    {k \in 0..(MaxFlipOffset - 1) : k < Len(datagram)} \cup {Len(datagram) - 1}

DeserializeFlipped(i, k, bit) ==
    /\ Len(fed) < MaxFed
    /\ Feed(FlipBit(datagrams[i], k, bit), -i, "flipped")
    /\ UNCHANGED cursor

DeserializeVersion(i, v) ==
    /\ Len(fed) < MaxFed
    /\ Feed(SetVersion(datagrams[i], v, endianness_), -i, "version")
    /\ UNCHANGED cursor

DeserializeBadLength(i, input) ==
    /\ Len(fed) < MaxFed
    /\ Feed(input, -i, "length")
    /\ UNCHANGED cursor

DeserializeBadSize(i, input) ==
    /\ Len(fed) < MaxFed
    /\ Feed(input, -i, "size")
    /\ UNCHANGED cursor

(* getChunkNumber and the encoder's packing applied to the same size *)

RECURSIVE CountChunks(_)
CountChunks(plan) ==
    IF plan = <<>> THEN 0 ELSE Len(Head(plan).chunks) + CountChunks(Tail(plan))

Count ==
    /\ lastOp = "construct"
    /\ probe' = [size        |-> frame.data.size,
                 chunkNumber |-> getChunkNumber(frame.data.size, extended),
                 datagrams   |-> Len(SerializePlan(<<>>, 0, 1, frame.data.size, extended)),
                 chunks      |-> CountChunks(SerializePlan(<<>>, 0, 1, frame.data.size,
                                                           extended))]
    /\ lastOp' = "count"
    /\ UNCHANGED <<endianness_, extended, frame, datagrams, collectedFrames_,
                   completed, fed, cursor, erased, carried, ms, ts, enc>>

----------------------------------------------------------------------------
(* Specifications *)

\* Spec: intact datagrams of one frame in any order and multiplicity
Frames ==
    { FrameA(Pattern(100, 171, 0)), FrameB(Pattern(484, 3, 1)),
      FrameA(Pattern(1412, 3, 1)), FrameB(Pattern(2830, 5, 3)) }
    \cup RefusedFrames

Init == InitWith(Frames)

Next ==
    \/ Serialize
    \/ \E i \in 1..Len(datagrams) : Deserialize(i)
    \/ CompletedFrames
    \/ Clear

Spec == Init /\ [][Next]_vars

\* SpecInOrder: the list delivered in emission order, up to MaxPasses times
InOrderFrames ==
    { FrameA(Pattern(1, 171, 0)), FrameA(Pattern(100, 171, 0)),
      FrameB(Pattern(483, 3, 1)), FrameA(Pattern(1412, 3, 1)),
      FrameB(Pattern(4250, 5, 3)), FrameA(Pattern(10000, 3, 1)) }

InitInOrder == InitWith(InOrderFrames)

NextInOrder ==
    \/ Serialize
    \/ Transmit
    \/ CompletedFrames
    \/ Clear

SpecInOrder == InitInOrder /\ [][NextInOrder]_vars

\* SpecRetry: the list delivered once in emission order; datagrams may be
\* damaged in transit and a damaged one may be sent again
RetryFrames ==
    { FrameA(Pattern(1412, 3, 1)), FrameB(Pattern(2830, 5, 3)),
      FrameB(Pattern(4250, 5, 3)) }

InitRetry == InitWith(RetryFrames)

NextRetry ==
    \/ Serialize
    \/ (cursor < Len(datagrams) /\ Transmit)
    \/ \E k \in 0..(DATAGRAM_MAX_SIZE - 1) :
          (cursor < Len(datagrams) /\ TransmitCorrupted(k))
    \/ \E i \in 1..Len(datagrams) : Retransmit(i)
    \/ CompletedFrames
    \/ Clear

SpecRetry == InitRetry /\ [][NextRetry]_vars

\* SpecReject: malformed input between intact deliveries
RejectFrames ==
    { FrameA(Pattern(1, 171, 0)), FrameB(Pattern(100, 3, 1)) }

InitReject == InitWith(RejectFrames)

NextReject ==
    \/ Serialize
    \/ \E i \in 1..Len(datagrams) : Deserialize(i)
    \/ \E i \in 1..Len(datagrams) : \E k \in FlipOffsets(datagrams[i]) :
          \E bit \in 0..7 : DeserializeFlipped(i, k, bit)
    \/ \E i \in 1..Len(datagrams) : \E v \in OtherVersions : DeserializeVersion(i, v)
    \/ \E i \in 1..Len(datagrams) :
          \E input \in BadLengthInputs(datagrams[i], endianness_) :
             DeserializeBadLength(i, input)
    \/ \E i \in 1..Len(datagrams) :
          \E input \in BadSizeInputs(datagrams[i], endianness_) :
             DeserializeBadSize(i, input)
    \/ CompletedFrames
    \/ Clear

SpecReject == InitReject /\ [][NextReject]_vars

\* SpecCount: the chunk count for every size up to MaxProbeSize and 10 000
ProbeFrames ==
    { FrameA(Pattern(size, 3, 1)) : size \in (1..MaxProbeSize) \cup {10000} }

InitCount == InitWith(ProbeFrames)

NextCount == Count

SpecCount == InitCount /\ [][NextCount]_vars

(* Two frames in progress: the datagrams delivered are packed from the     *)
(* chunks the encoder writes for `frame` and for a second frame, and a chunk *)
(* may be malformed.                                                         *)

Companion == FrameB(Pattern(700, 5, 3))

PackedFrames == {FrameA(Pattern(600, 3, 1))}

FrameOf(owner) == IF owner = 1 THEN frame ELSE Companion

\* chunk k of the frame of `owner`, intact (fault 0) or malformed
Tokens(faults) == [owner : {1, 2}, k : {1, 2}, fault : faults]

\* the chunk as the sender of a malformed datagram writes it
Faulty(chunk, fault) ==
    CASE fault = 0 -> chunk
      [] fault = 1 -> SetByte(chunk, 0, 2)
      [] fault = 2 -> <<chunk[1]>> \o WriteInt(endianness_, CHUNK_SLAVE_HEADER_SIZE_BASE, 2)
                      \o SubSeq(chunk, 4, Len(chunk))
      [] fault = 3 -> <<chunk[1]>> \o WriteInt(endianness_, CHUNK_MAX_SIZE + 1, 2)
                      \o SubSeq(chunk, 4, Len(chunk))
      [] fault = 4 -> SubSeq(chunk, 1, Len(chunk) - 1)
      [] fault = 5 -> SubSeq(chunk, 1, 25) \o WriteInt(endianness_, FRAME_MAX_SIZE + 1, 4)
                      \o SubSeq(chunk, 30, Len(chunk))
      [] fault = 6 -> <<chunk[1]>>
                      \o WriteInt(endianness_,
                                  IF chunk[1] = CHUNK_MASTER_ID
                                  THEN CHUNK_MASTER_HEADER_SIZE
                                  ELSE CHUNK_SLAVE_HEADER_SIZE(extended), 2)
                      \o SubSeq(chunk, 4, Len(chunk))
      [] fault = 7 -> SubSeq(chunk, 1, 25) \o WriteInt(endianness_, 0, 4)
                      \o SubSeq(chunk, 30, Len(chunk))
      [] fault = 8 -> SubSeq(chunk, 1, 27)
      [] fault = 9 -> SubSeq(chunk, 1, 25) \o WriteInt(endianness_, INT_MAX, 4)
                      \o SubSeq(chunk, 30, Len(chunk))

TokenBytes(t) ==
    LET f    == FrameOf(t.owner)
        plan == SerializePlan(<<>>, 0, 1, f.data.size, extended)
    IN  Faulty(ChunkBytes(f, plan[1].chunks[t.k], endianness_, extended), t.fault)

RECURSIVE TokensBytes(_)
TokensBytes(tokens) ==
    IF tokens = <<>> THEN <<>>
    ELSE TokenBytes(Head(tokens)) \o TokensBytes(Tail(tokens))

\* lines 339-342 and 393-394 around the chunks: header with the size, CRC
Pack(tokens) ==
    StampCrc(DatagramHeader(DATAGRAM_HEADER_SIZE + Len(TokensBytes(tokens)), endianness_)
             \o TokensBytes(tokens), endianness_)

\* well-formed datagrams: one chunk, or one chunk of each frame
PackedInputs ==
    {<<a>> : a \in Tokens({0})}
    \cup {q \in Tokens({0}) \X Tokens({0}) : q[1].owner # q[2].owner}

\* malformed datagrams: chunk a, an offending chunk, and (save after a
\* truncated chunk) the intact chunk c of the other frame behind it
FaultedAround(a, c) ==
    {<<a, [c EXCEPT !.fault = f], c>> : f \in {1, 2, 3}}
    \cup {<<a, [c EXCEPT !.fault = 4]>>}
    \cup {<<[c EXCEPT !.fault = 1], a>>}

\* the master chunk of one frame ahead of a malformed slave chunk of the
\* other, and a slave chunk ahead of a master chunk announcing a frame of
\* more than FRAME_MAX_SIZE bytes
FaultedInputs ==
    UNION {FaultedAround([owner |-> o, k |-> 1, fault |-> 0],
                         [owner |-> 3 - o, k |-> 2, fault |-> 0])
           \cup {<<[owner |-> o, k |-> 2, fault |-> 0],
                   [owner |-> 3 - o, k |-> 1, fault |-> 5],
                   [owner |-> 3 - o, k |-> 1, fault |-> 0]>>} : o \in {1, 2}}

\* the frame ids of the chunks ahead of the first offending chunk
RECURSIVE CarriedAhead(_)
CarriedAhead(tokens) ==
    IF tokens = <<>> \/ Head(tokens).fault # 0 THEN {}
    ELSE {FrameOf(Head(tokens).owner).id} \cup CarriedAhead(Tail(tokens))

\* the sender encodes both frames
SerializeBoth ==
    /\ lastOp = "construct"
    /\ datagrams' = serialize(frame, endianness_, extended)
                    \o serialize(Companion, endianness_, extended)
    /\ lastOp' = "serialize"
    /\ UNCHANGED <<endianness_, extended, frame, collectedFrames_, completed,
                   fed, cursor, erased, probe, carried, ms, ts, enc>>

DeserializePacked(tokens) ==
    /\ lastOp # "construct"
    /\ Len(fed) < MaxPacked
    /\ FeedCarrying(Pack(tokens), 1, "packed", CarriedAhead(tokens))
    /\ UNCHANGED cursor

DeserializeFaulted(tokens) ==
    /\ lastOp # "construct"
    /\ Len(fed) < MaxPacked
    /\ Len(Corrupted) < MaxCorrupted
    /\ FeedCarrying(Pack(tokens), -1, "faulted", CarriedAhead(tokens))
    /\ UNCHANGED cursor

InitPacked == InitWith(PackedFrames)

NextPacked ==
    \/ SerializeBoth
    \/ \E tokens \in PackedInputs : DeserializePacked(tokens)
    \/ \E tokens \in FaultedInputs : DeserializeFaulted(tokens)
    \/ CompletedFrames
    \/ Clear

SpecPacked == InitPacked /\ [][NextPacked]_vars

----------------------------------------------------------------------------
(* MemorySerializer, MemorySerializer.cpp.  The serializer record holds      *)
(* device_ ("nullptr" or "device"), the state of the QIODevice behind it,   *)
(* status_, endianness_, swapBytes_ and the byte order of the host.  A      *)
(* typed item is the sequence of its bytes, most significant first.         *)

\* QIODevice::read(buffer, length), called at line 412: -1 on a device not
\* open for reading, else the bytes up to the end of the data
DeviceRead(dev, length) ==
    IF ~dev.readable THEN [result |-> -1, data |-> <<>>, dev |-> dev]
    ELSE LET n == qMin(length, Len(dev.bytes) - dev.pos)
         IN  [result |-> n,
              data   |-> SubSeq(dev.bytes, dev.pos + 1, dev.pos + n),
              dev    |-> [dev EXCEPT !.pos = dev.pos + n]]

\* QIODevice::write(buffer, length), called at line 429: -1 on a device not
\* open for writing, else the bytes the device had room for
DeviceWrite(dev, data) ==
    IF ~dev.writable THEN [result |-> -1, dev |-> dev]
    ELSE LET n == qMin(Len(data), dev.limit - dev.pos)
         IN  [result |-> n,
              dev    |-> [dev EXCEPT
                            !.bytes = SubSeq(dev.bytes, 1, dev.pos)
                                      \o SubSeq(data, 1, n)
                                      \o SubSeq(dev.bytes, dev.pos + n + 1, Len(dev.bytes)),
                            !.pos = dev.pos + n]]

\* QIODevice::skip(length), called at line 445
DeviceSkip(dev, length) ==
    IF ~dev.readable THEN [result |-> -1, dev |-> dev]
    ELSE LET n == qMin(length, Len(dev.bytes) - dev.pos)
         IN  [result |-> n, dev |-> [dev EXCEPT !.pos = dev.pos + n]]

\* QIODevice::seek(position), called at line 497
DeviceSeek(dev, position) ==
    IF position <= Len(dev.bytes) THEN [dev EXCEPT !.pos = position] ELSE dev

\* variant of setStatus: the status is overwritten
setStatusAlways(m, status) == [m EXCEPT !.status_ = status]

\* lines 519-522
setStatus(m, status) ==
    IF m.status_ = "Ok" THEN [m EXCEPT !.status_ = status] ELSE m

\* lines 526-528
resetStatus(m) == [m EXCEPT !.status_ = "Ok"]

\* variant of readRawData: nothing is read while the status is not Ok
readRawDataWhileOk(m, length) ==
    IF m.device_ = "nullptr" \/ m.status_ # "Ok"
    THEN [result |-> -1, data |-> <<>>, m |-> m]
    ELSE LET r == DeviceRead(m.dev, length)
             after == [m EXCEPT !.dev = r.dev]
         IN  [result |-> r.result, data |-> r.data,
              m |-> IF r.result # length THEN setStatus(after, "ReadPastEnd") ELSE after]

\* variant of readRawData: the status is set only when the device fails
readRawDataUnlessShort(m, length) ==
    IF m.device_ = "nullptr" THEN [result |-> -1, data |-> <<>>, m |-> m]
    ELSE LET r == DeviceRead(m.dev, length)
             after == [m EXCEPT !.dev = r.dev]
         IN  [result |-> r.result, data |-> r.data,
              m |-> IF r.result < 0 THEN setStatus(after, "ReadPastEnd") ELSE after]

\* lines 409-418
readRawData(m, length) ==
    IF m.device_ = "nullptr" THEN [result |-> -1, data |-> <<>>, m |-> m]
    ELSE LET r == DeviceRead(m.dev, length)
             after == [m EXCEPT !.dev = r.dev]
         IN  [result |-> r.result, data |-> r.data,
              m |-> IF r.result # length THEN setStatus(after, "ReadPastEnd") ELSE after]

\* variant of writeRawData: the status is not consulted
writeRawDataAnyStatus(m, data) ==
    IF m.device_ = "nullptr" THEN [result |-> -1, m |-> m]
    ELSE LET r == DeviceWrite(m.dev, data)
             after == [m EXCEPT !.dev = r.dev]
         IN  [result |-> r.result,
              m |-> IF r.result # Len(data) THEN setStatus(after, "WriteFailed") ELSE after]

\* lines 426-435
writeRawData(m, data) ==
    IF m.device_ = "nullptr" \/ m.status_ # "Ok" THEN [result |-> -1, m |-> m]
    ELSE LET r == DeviceWrite(m.dev, data)
             after == [m EXCEPT !.dev = r.dev]
         IN  [result |-> r.result,
              m |-> IF r.result # Len(data) THEN setStatus(after, "WriteFailed") ELSE after]

\* lines 442-451
skipRawData(m, length) ==
    IF m.device_ = "nullptr" THEN [result |-> -1, m |-> m]
    ELSE LET r == DeviceSkip(m.dev, length)
             after == [m EXCEPT !.dev = r.dev]
         IN  [result |-> r.result,
              m |-> IF r.result # length THEN setStatus(after, "ReadPastEnd") ELSE after]

\* lines 465-472 with device == nullptr
setDevice(m) == [m EXCEPT !.device_ = "nullptr"]

\* lines 496-498
seek(m, position) ==
    IF m.device_ = "nullptr" THEN m ELSE [m EXCEPT !.dev = DeviceSeek(m.dev, position)]

\* variant of setEndianness: the byte order of the host is not consulted
setEndiannessOfLittleHost(m, endianness) ==
    [m EXCEPT !.endianness_ = endianness,
              !.swapBytes_ = endianness # "LittleEndian"]

\* lines 541-548
setEndianness(m, endianness) ==
    [m EXCEPT !.endianness_ = endianness,
              !.swapBytes_ = IF m.host = "BigEndian"
                             THEN endianness # "BigEndian"
                             ELSE endianness # "LittleEndian"]

\* the scalar types of operator<< and operator>> and sizeof each
ItemTypes ==
    {"qint8", "quint8", "qint16", "quint16", "qint32", "quint32", "qint64",
     "quint64", "bool", "char16_t", "char32_t"}

SizeOf(type) ==
    CASE type \in {"qint8", "quint8", "bool"} -> 1
      [] type \in {"qint16", "quint16", "char16_t"} -> 2
      [] type \in {"qint32", "quint32", "char32_t"} -> 4
      [] type \in {"qint64", "quint64"} -> 8

\* the object representation of an item on the host, and back
HostMemory(m, item) == IF m.host = "BigEndian" THEN item ELSE Reverse(item)

qbswap(item) == Reverse(item)

ZeroItem(width) == [k \in 1..width |-> 0]

\* operator<<, lines 260-401: bool is cast to qint8, one-byte items are
\* written as they are, wider items are swapped when swapBytes_ is set
WriteItem(m, type, x) ==
    LET item == IF type = "bool" THEN (IF x THEN <<1>> ELSE <<0>>) ELSE x
    IN  IF SizeOf(type) = 1 THEN writeRawData(m, item)
        ELSE writeRawData(m, HostMemory(m, IF m.swapBytes_ THEN qbswap(item) ELSE item))

\* operator>>, lines 82-253: a short read gives 0, else the bytes read are
\* swapped when swapBytes_ is set; bool is !!value
ReadItem(m, type) ==
    LET width == SizeOf(type)
        r     == readRawData(m, width)
        item  == IF r.result # width THEN ZeroItem(width)
                 ELSE IF width > 1 /\ m.swapBytes_
                      THEN qbswap(HostMemory(m, r.data))
                      ELSE HostMemory(m, r.data)
    IN  [result |-> r.result, m |-> r.m,
         item |-> IF type = "bool" THEN item # <<0>> ELSE item]

(* A MemorySerializer in use.  ms.s is the serializer; ms.op, ms.requested, *)
(* ms.result and ms.item record the last call, the length it asked for, the *)
(* value readRawData / writeRawData / skipRawData returned and the item a   *)
(* typed read produced; ms.trip follows write(x); seek(0); read().          *)

network == <<endianness_, extended, frame, datagrams, collectedFrames_,
             completed, fed, cursor, lastOp, erased, probe, carried, enc>>

\* the NetworkSerializer is constructed and left alone
IdleNetwork ==
    /\ endianness_ = "BigEndian"
    /\ extended = FALSE
    /\ frame = FrameA(Pattern(1, 171, 0))
    /\ datagrams = <<>>
    /\ collectedFrames_ = <<>>
    /\ completed = <<>>
    /\ fed = <<>>
    /\ cursor = 0
    /\ lastOp = "construct"
    /\ erased = NoneErased
    /\ probe = NoProbe
    /\ carried = {}
    /\ enc = NoEncoder

MaxDeviceSize == 3

\* a QBuffer over `bytes` opened in `mode`, or a device of `limit` bytes
Device(bytes, mode, limit) ==
    [bytes |-> bytes, pos |-> 0, limit |-> limit,
     readable |-> mode \in {"ReadOnly", "ReadWrite"},
     writable |-> mode \in {"WriteOnly", "ReadWrite"}]

\* lines 16-66: the constructors; status Ok, big-endian, swapBytes_ set on a
\* little-endian host
Constructed(device, dev, host) ==
    [device_ |-> device, dev |-> dev, status_ |-> "Ok",
     endianness_ |-> "BigEndian", swapBytes_ |-> host # "BigEndian", host |-> host]

NoTrip == [stage |-> "idle", type |-> "qint8", x |-> <<>>]

InUse(s) ==
    [s |-> s, op |-> "construct", requested |-> 0, result |-> 0, item |-> <<>>,
     trip |-> NoTrip]

Called(s, op, requested, result, item, trip) ==
    /\ ms' = [s |-> s, op |-> op, requested |-> requested, result |-> result,
              item |-> item, trip |-> trip]
    /\ UNCHANGED network
    /\ UNCHANGED ts

ReadRawData(length) ==
    LET r == readRawData(ms.s, length)
    IN  Called(r.m, "readRawData", length, r.result, r.data, NoTrip)

WriteRawData(data) ==
    LET r == writeRawData(ms.s, data)
    IN  Called(r.m, "writeRawData", Len(data), r.result, <<>>, NoTrip)

SkipRawData(length) ==
    LET r == skipRawData(ms.s, length)
    IN  Called(r.m, "skipRawData", length, r.result, <<>>, NoTrip)

\* serializer << x, for x of the given type
TypedWrite(type, x) ==
    LET r == WriteItem(ms.s, type, x)
        whole == /\ ms.s.device_ = "device"
                 /\ ms.s.dev.pos = 0
                 /\ r.result = SizeOf(type)
    IN  Called(r.m, "write", SizeOf(type), r.result, <<>>,
               IF whole THEN [stage |-> "written", type |-> type, x |-> x] ELSE NoTrip)

\* serializer >> item, for an item of the given type
TypedRead(type) ==
    LET r == ReadItem(ms.s, type)
    IN  Called(r.m, "read", SizeOf(type), r.result, r.item,
               IF ms.trip.stage = "rewound" /\ ms.trip.type = type
               THEN [ms.trip EXCEPT !.stage = "read"] ELSE NoTrip)

Seek(position) ==
    /\ ms.s.device_ = "device" => position <= Len(ms.s.dev.bytes)
    /\ Called(seek(ms.s, position), "seek", 0, 0, <<>>,
              IF ms.trip.stage = "written" /\ position = 0
              THEN [ms.trip EXCEPT !.stage = "rewound"] ELSE NoTrip)

SetStatus(status) ==
    Called(setStatus(ms.s, status), "setStatus", 0, 0, <<>>, NoTrip)

ResetStatus ==
    Called(resetStatus(ms.s), "resetStatus", 0, 0, <<>>, NoTrip)

SetDevice ==
    /\ ms.s.device_ = "device"
    /\ Called(setDevice(ms.s), "setDevice", 0, 0, <<>>, NoTrip)

SetEndianness(endianness) ==
    Called(setEndianness(ms.s, endianness), "setEndianness", 0, 0, <<>>, NoTrip)

(* Status: serializers without a device, over read-only, write-only and    *)
(* read-write buffers, and over a device with room for MaxDeviceSize bytes  *)

StatusSerializers ==
    {Constructed("nullptr", Device(<<>>, "NotOpen", 0), "LittleEndian")}
    \cup {Constructed("device", Device(bytes, mode, MaxDeviceSize), "LittleEndian") :
            bytes \in {<<>>, <<1, 0, 2>>},
            mode \in {"ReadOnly", "WriteOnly", "ReadWrite"}}

InitStatus ==
    /\ IdleNetwork
    /\ ms \in {InUse(s) : s \in StatusSerializers}
    /\ ts = NoClock

NextStatus ==
    \/ \E length \in 1..2 : ReadRawData(length)
    \/ \E data \in {<<7>>, <<8, 9>>} : WriteRawData(data)
    \/ \E length \in 1..2 : SkipRawData(length)
    \/ \E type \in {"quint8", "qint16"} : TypedRead(type)
    \/ TypedWrite("quint16", <<1, 0>>)
    \/ \E position \in 0..1 : Seek(position)
    \/ \E status \in {"Ok", "ReadPastEnd", "WriteFailed"} : SetStatus(status)
    \/ ResetStatus
    \/ SetDevice

SpecStatus == InitStatus /\ [][NextStatus]_vars

(* Endianness: every scalar type written at the start of an empty          *)
(* read-write buffer, rewound and read back, on a host of either byte order *)

Samples(type) ==
    CASE type = "bool" -> BOOLEAN
      [] SizeOf(type) = 1 /\ type # "bool" -> {<<129>>, <<0>>}
      [] SizeOf(type) = 2 -> {<<1, 0>>, <<255, 254>>}
      [] SizeOf(type) = 4 -> {<<18, 52, 86, 120>>, <<255, 255, 255, 254>>}
      [] SizeOf(type) = 8 -> {<<1, 2, 3, 4, 5, 6, 7, 8>>, <<128, 0, 0, 0, 0, 0, 0, 1>>}

InitEndian ==
    /\ IdleNetwork
    /\ ms \in {InUse(Constructed("device", Device(<<>>, "ReadWrite", SizeOf("qint64")), host)) :
                 host \in {"BigEndian", "LittleEndian"}}
    /\ ts = NoClock

NextEndian ==
    \/ \E endianness \in {"BigEndian", "LittleEndian"} : SetEndianness(endianness)
    \/ \E type \in ItemTypes : \E x \in Samples(type) :
          ms.s.dev.pos = 0 /\ TypedWrite(type, x)
    \/ Seek(0)
    \/ \E type \in ItemTypes : TypedRead(type)
    \/ ResetStatus

SpecEndian == InitEndian /\ [][NextEndian]_vars

----------------------------------------------------------------------------
(* ChronoUtilities: timestampMicroseconds64 *)

\* Times are microseconds of the steady clock since its epoch.  The values
\* of the model stay far below 2^63, the width of the clock's count, so
\* that neither `base += 1` nor the conversion to quint64 wraps.

MaxClock == 3
MaxCalls == 3

Resting == [pc |-> "idle", started |-> 0, current |-> 0, loaded |-> 0,
            value |-> 0]

\* the process before the first call: the function's static `base` has not
\* been initialised
Process(callers) ==
    [clock |-> 0, initialised |-> FALSE, base |-> 0, events |-> 0,
     entered |-> 0, calls |-> <<>>, th |-> [c \in callers |-> Resting]]

\* line 25: the condition under which base is bumped by one microsecond
BumpsWhenBehind(current, base) == current < base
Bumps(current, base) == current <= base

\* the values lines 25-26 can store into base: `base += 1` adds one to the
\* value of base compared in line 25 or to the value base holds when it is
\* read again, which differ only if another thread wrote base in between
Stored(current, loaded, base) ==
    IF Bumps(current, loaded) THEN {loaded + 1, base + 1} ELSE {current}

\* the steady clock advances; it never goes backwards
Tick(d) ==
    /\ ts.clock + d <= MaxClock
    /\ ts' = [ts EXCEPT !.clock = @ + d]
    /\ UNCHANGED <<network, ms>>

\* lines 16-19: the call starts; the first call to arrive initialises the
\* static base from the clock, under the guard of the static
Enter(c) ==
    /\ ts.th[c].pc = "idle"
    /\ ts.entered < MaxCalls
    /\ ts' = [ts EXCEPT !.entered = @ + 1,
                        !.events = @ + 1,
                        !.initialised = TRUE,
                        !.base = IF ts.initialised THEN @ ELSE ts.clock,
                        !.th[c] = [Resting EXCEPT !.pc = "now",
                                                  !.started = ts.events + 1]]
    /\ UNCHANGED <<network, ms>>

\* lines 21-23: current = steady_clock::now()
Now(c) ==
    /\ ts.th[c].pc = "now"
    /\ ts' = [ts EXCEPT !.th[c].current = ts.clock, !.th[c].pc = "load"]
    /\ UNCHANGED <<network, ms>>

\* line 25: base is read for the comparison
Load(c) ==
    /\ ts.th[c].pc = "load"
    /\ ts' = [ts EXCEPT !.th[c].loaded = ts.base, !.th[c].pc = "store"]
    /\ UNCHANGED <<network, ms>>

\* lines 25-26: base is written
Store(c) ==
    /\ ts.th[c].pc = "store"
    /\ \E new \in Stored(ts.th[c].current, ts.th[c].loaded, ts.base) :
          ts' = [ts EXCEPT !.base = new, !.th[c].value = new,
                           !.th[c].pc = "return"]
    /\ UNCHANGED <<network, ms>>

\* line 28: the call returns the value it stored or the value base holds
\* when it is read again
Return(c) ==
    /\ ts.th[c].pc = "return"
    /\ \E value \in {ts.th[c].value, ts.base} :
          ts' = [ts EXCEPT
                    !.events = @ + 1,
                    !.calls = Append(@, [caller |-> c,
                                         started |-> ts.th[c].started,
                                         finished |-> ts.events + 1,
                                         current |-> ts.th[c].current,
                                         value |-> value]),
                    !.th[c] = Resting]
    /\ UNCHANGED <<network, ms>>

Callers == {1, 2}

NextTimestamp ==
    \/ \E d \in 1..2 : Tick(d)
    \/ \E c \in DOMAIN ts.th : Enter(c)
    \/ \E c \in DOMAIN ts.th : Now(c)
    \/ \E c \in DOMAIN ts.th : Load(c)
    \/ \E c \in DOMAIN ts.th : Store(c)
    \/ \E c \in DOMAIN ts.th : Return(c)

\* every call is made by the same thread
InitTimestamp ==
    /\ IdleNetwork
    /\ ms = NoSerializer
    /\ ts = Process({1})

SpecTimestamp == InitTimestamp /\ [][NextTimestamp]_vars

\* several threads of the process call concurrently
InitConcurrent ==
    /\ IdleNetwork
    /\ ms = NoSerializer
    /\ ts = Process(Callers)

SpecConcurrent == InitConcurrent /\ [][NextTimestamp]_vars

----------------------------------------------------------------------------
(* serialize() datagram by datagram: one step per iteration of the loop of *)
(* lines 312-401.  A datagram is described by its planned size and by the  *)
(* chunks written into it, so that frames up to FRAME_MAX_SIZE are walked.  *)

MaxWalkSize == 3000

\* the fields the walk does not touch
beside == <<endianness_, extended, frame, datagrams, collectedFrames_,
            completed, fed, cursor, lastOp, erased, probe, carried, ms, ts>>

\* number of slave chunks among `chunks`
RECURSIVE SlaveCount(_)
SlaveCount(chunks) ==
    IF chunks = <<>> THEN 0
    ELSE (IF Head(chunks).id = CHUNK_SLAVE_ID THEN 1 ELSE 0) + SlaveCount(Tail(chunks))

\* number of data bytes `chunks` copy from the frame
RECURSIVE PayloadSize(_)
PayloadSize(chunks) ==
    IF chunks = <<>> THEN 0 ELSE Head(chunks).dataSize + PayloadSize(Tail(chunks))

\* lines 298-310: the call starts; a refused frame makes it return at once.
\* `before` counts what the datagrams ahead of the last one held.
SerializeBegin ==
    /\ enc.pc = "idle"
    /\ enc' = [pc               |-> IF SerializeRefuses(frame) THEN "returned" ELSE "loop",
               index            |-> 0,
               slaveChunkNumber |-> 1,
               frameSize        |-> frame.data.size,
               count            |-> 0,
               datagram         |-> [size |-> 0, chunks |-> <<>>],
               before           |-> [chunks |-> 0, slaves |-> 0, payload |-> 0]]
    /\ UNCHANGED beside

\* lines 312-400: one datagram is planned, written and appended to the list
SerializeDatagram ==
    /\ enc.pc = "loop"
    /\ enc.index < enc.frameSize
    /\ LET size == PlanDatagram(enc.index, enc.frameSize, extended)
           w    == WriteChunks(<<>>, DATAGRAM_HEADER_SIZE, size, enc.index,
                               enc.slaveChunkNumber, extended)
       IN  enc' = [enc EXCEPT
                     !.index = w.index,
                     !.slaveChunkNumber = w.slaveChunkNumber,
                     !.count = @ + 1,
                     !.datagram = [size |-> size, chunks |-> w.chunks],
                     !.before = [chunks  |-> @.chunks + Len(enc.datagram.chunks),
                                 slaves  |-> @.slaves + SlaveCount(enc.datagram.chunks),
                                 payload |-> @.payload + PayloadSize(enc.datagram.chunks)]]
    /\ UNCHANGED beside

\* line 312: the loop ends when the whole frame was written
SerializeReturn ==
    /\ enc.pc = "loop"
    /\ ~(enc.index < enc.frameSize)
    /\ enc' = [enc EXCEPT !.pc = "returned"]
    /\ UNCHANGED beside

WalkFrames ==
    { FrameA(Pattern(size, 3, 1)) :
        size \in (1..MaxWalkSize) \cup {10000, FRAME_MAX_SIZE} }
    \cup RefusedFrames

InitWalk == InitWith(WalkFrames)

NextWalk ==
    \/ SerializeBegin
    \/ SerializeDatagram
    \/ SerializeReturn

SpecWalk == InitWalk /\ [][NextWalk]_vars

----------------------------------------------------------------------------
(* The list delivered once in emission order, for the data sizes around     *)
(* which the packing changes: a chunk or a datagram becomes full (every 487, *)
(* 487 and 441 bytes after the 483 of the master chunk in the base          *)
(* protocol, every 483, 437 and 483 bytes in the extended one)               *)

DeliverSizes ==
    (1..2) \cup (482..485) \cup (965..971) \cup (1402..1404) \cup (1410..1412)
    \cup (1885..1887) \cup (1897..1899) \cup (2368..2370) \cup (2384..2386)
    \cup (2805..2807) \cup (2825..2827) \cup {4250}

DeliverFrames == { FrameB(Pattern(size, 5, 3)) : size \in DeliverSizes }

InitDeliver == InitWith(DeliverFrames) /\ endianness_ = "LittleEndian"

NextDeliver ==
    \/ Serialize
    \/ (cursor < Len(datagrams) /\ Transmit)
    \/ CompletedFrames

SpecDeliver == InitDeliver /\ [][NextDeliver]_vars

----------------------------------------------------------------------------
(* serialize() operation by operation, lines 295-402: the datagram is the  *)
(* QByteArray behind the QBuffer of a MemorySerializer (ms), which has room *)
(* for `limit` bytes; with less room than the planned size a write comes up *)
(* short.  datagram.size() is Len(ms.s.dev.bytes), datagram.capacity() the  *)
(* size passed to reserve().                                                *)

\* Once a write has failed, the loop variables of the iterations that follow
\* are tracked for MaxSpin iterations and held from then on.
MaxSpin == 3

\* the variables serialize() neither reads nor writes
aside == <<endianness_, extended, frame, collectedFrames_, completed, fed,
           cursor, lastOp, erased, probe, carried, ts>>

\* static_cast<quintN>(v) as an item: its bytes, most significant first
Item(v, width) == Reverse(LittleEndianBytes(v, width))

\* serializer << item, or serializer.writeRawData(bytes) for type "raw"
Put(m, w) ==
    IF w.type = "raw" THEN writeRawData(m, w.x).m ELSE WriteItem(m, w.type, w.x).m

\* lines 339-342
HeaderWrites(capacity) ==
    << [type |-> "quint16", x |-> Item(DATAGRAM_PROTOCOL_VERSION, 2)],
       [type |-> "quint16", x |-> Item(capacity, 2)],
       [type |-> "quint32", x |-> Item(0, 4)],
       [type |-> "quint16", x |-> Item(0, 2)] >>

\* lines 353-363 (index = 0) and 375-387
ChunkWrites(f, index, slaveChunkNumber, allSize, dataSize, ext) ==
    << [type |-> "quint8", x |-> Item(IF index = 0 THEN CHUNK_MASTER_ID
                                                   ELSE CHUNK_SLAVE_ID, 1)],
       [type |-> "quint16", x |-> Item(allSize, 2)],
       [type |-> "raw", x |-> AppendNul(toUtf8(f.task),
                                        CHUNK_TASK_SIZE - Len(toUtf8(f.task)))],
       [type |-> "raw", x |-> AppendNul(toUtf8(f.flow),
                                        CHUNK_FLOW_SIZE - Len(toUtf8(f.flow)))],
       [type |-> "quint32", x |-> Item(f.id, 4)],
       [type |-> "quint8", x |-> Item(f.interpretation, 1)],
       [type |-> "quint8", x |-> Item(f.priority, 1)],
       [type |-> "quint16", x |-> Item(f.time, 2)] >>
    \o (IF index = 0
        THEN << [type |-> "quint16", x |-> Item(f.number, 2)],
                [type |-> "quint32", x |-> Item(f.data.size, 4)] >>
        ELSE << [type |-> "quint16", x |-> Item(slaveChunkNumber, 2)] >>
             \o (IF ext THEN << [type |-> "quint32", x |-> Item(index, 4)] >>
                        ELSE <<>>))
    \o << [type |-> "raw", x |-> DataBytes(f.data, index, dataSize)] >>

\* lines 298-310
EncodeBegin ==
    /\ enc.pc = "idle"
    /\ enc' = [pc               |-> IF SerializeRefuses(frame) THEN "returned" ELSE "loop",
               index            |-> 0,
               slaveChunkNumber |-> 1,
               frameSize        |-> frame.data.size,
               capacity         |-> 0,
               dataSize         |-> 0,
               todo             |-> <<>>,
               spins            |-> 0]
    /\ UNCHANGED <<datagrams, ms, aside>>

\* lines 312-342: the datagram is planned and reserved, the serializer is
\* constructed over it and the writes of the header are due
EncodeOpen(limit, host) ==
    /\ enc.pc = "loop"
    /\ enc.index < enc.frameSize
    /\ LET size == PlanDatagram(enc.index, enc.frameSize, extended)
           s    == setEndianness(
                       Constructed("device", Device(<<>>, "WriteOnly",
                                                    qMin(limit, size)), host),
                       endianness_)
       IN  /\ ms' = InUse(s)
           /\ enc' = [enc EXCEPT !.pc = "header", !.capacity = size,
                                 !.dataSize = 0, !.todo = HeaderWrites(size),
                                 !.spins = 0]
    /\ UNCHANGED <<datagrams, aside>>

\* lines 339-342, 353-364 and 375-388: the next write of the header or of
\* the chunk; after the last one of a chunk, line 390 advances index
EncodeWrite ==
    /\ enc.pc \in {"header", "chunk"}
    /\ enc.todo # <<>>
    /\ ms' = InUse(Put(ms.s, Head(enc.todo)))
    /\ LET last == Len(enc.todo) = 1
       IN  enc' = [enc EXCEPT
                     !.todo = Tail(@),
                     !.pc = IF last THEN "chunks" ELSE @,
                     !.index = IF last /\ enc.spins < MaxSpin
                               THEN @ + enc.dataSize ELSE @,
                     !.slaveChunkNumber =
                         IF last /\ enc.spins < MaxSpin
                                 /\ enc.pc = "chunk" /\ enc.index # 0
                         THEN @ + 1 ELSE @]
    /\ UNCHANGED <<datagrams, aside>>

\* lines 344-352 and 366-374: an iteration of the chunk loop begins
EncodeChunk ==
    /\ enc.pc = "chunks"
    /\ Len(ms.s.dev.bytes) < enc.capacity
    /\ LET headerSize == IF enc.index = 0 THEN CHUNK_MASTER_HEADER_SIZE
                                          ELSE CHUNK_SLAVE_HEADER_SIZE(extended)
           dataMax    == IF enc.index = 0 THEN CHUNK_MASTER_DATA_MAX_SIZE
                                          ELSE CHUNK_SLAVE_DATA_MAX_SIZE(extended)
           freeSize   == enc.capacity - Len(ms.s.dev.bytes) - headerSize
           dataSize   == qMin(freeSize, dataMax)
           allSize    == headerSize + dataSize
       IN  enc' = [enc EXCEPT
                     !.pc = "chunk",
                     !.dataSize = dataSize,
                     !.todo = ChunkWrites(frame, enc.index, enc.slaveChunkNumber,
                                          allSize, dataSize, extended),
                     !.spins = IF ms.s.status_ = "Ok" THEN @
                               ELSE qMin(@ + 1, MaxSpin)]
    /\ UNCHANGED <<datagrams, ms, aside>>

\* lines 393-400: the CRC is written over bytes 8..9; the list is cleared
\* and the loop left if the status is not Ok, else the datagram is appended
EncodeStamp ==
    /\ enc.pc = "chunks"
    /\ ~(Len(ms.s.dev.bytes) < enc.capacity)
    /\ \E crc \in {crc16(ms.s.dev.bytes, {})} :
       \E s \in {Put(seek(ms.s, 8), [type |-> "quint16", x |-> Item(crc, 2)])} :
           /\ ms' = InUse(s)
           /\ IF s.status_ # "Ok"
              THEN /\ datagrams' = <<>>
                   /\ enc' = [enc EXCEPT !.pc = "returned"]
              ELSE /\ datagrams' = Append(datagrams, s.dev.bytes)
                   /\ enc' = [enc EXCEPT !.pc = "loop"]
    /\ UNCHANGED aside

\* line 312: the whole frame was written
EncodeReturn ==
    /\ enc.pc = "loop"
    /\ ~(enc.index < enc.frameSize)
    /\ enc' = [enc EXCEPT !.pc = "returned"]
    /\ UNCHANGED <<datagrams, ms, aside>>

EncodeFrames ==
    { FrameA(Pattern(1, 171, 0)), FrameB(Pattern(100, 5, 3)),
      FrameA(Pattern(600, 3, 1)), FrameB(Pattern(1500, 5, 3)) }
    \cup RefusedFrames

\* room for nothing, for a part of the datagram header, for a part of the
\* header of the first chunk, for all but the last byte, and for all
Limits == {0, 5, 30, DATAGRAM_MAX_SIZE - 1, DATAGRAM_MAX_SIZE}

InitEncode == InitWith(EncodeFrames)

NextEncode ==
    \/ EncodeBegin
    \/ \E limit \in Limits : \E host \in {"BigEndian", "LittleEndian"} :
          EncodeOpen(limit, host)
    \/ EncodeChunk
    \/ EncodeWrite
    \/ EncodeStamp
    \/ EncodeReturn

\* the thread that called serialize() keeps running
SpecEncode == InitEncode /\ [][NextEncode]_vars /\ WF_vars(NextEncode)

----------------------------------------------------------------------------
(* A malformed chunk inside a datagram whose header is valid: the chunks are *)
(* those the encoder writes for `frame` and for Companion, one of them made  *)
(* malformed, and the datagram delivered is logged in `probe`.               *)

\* the chunk with chunkSize equal to the size of its own header
HeaderOnly(t) == [t EXCEPT !.fault = 6]

\* an intact chunk a ahead of the offending chunk (fault f of chunk c) and
\* the intact chunk c behind it; a truncated chunk ends the datagram; the
\* offending chunk may come first
MalformedAround(a, c) ==
    {<<a, [c EXCEPT !.fault = f], c>> :
        f \in {1, 2, 3, 6} \cup (IF c.k = 1 THEN {5} ELSE {})}
    \cup {<<a, [c EXCEPT !.fault = 4]>>}
    \cup {<<[c EXCEPT !.fault = f], c>> : f \in {1, 6}}

\* the offending chunk is a master chunk behind a slave chunk of the other
\* frame, or a slave chunk behind the master chunk of the other frame
MalformedInputs ==
    UNION {MalformedAround([owner |-> o, k |-> 3 - k, fault |-> 0],
                           [owner |-> 3 - o, k |-> k, fault |-> 0]) :
           o \in {1, 2}, k \in {1, 2}}

\* the chunks ahead of the first offending chunk
RECURSIVE IntactAhead(_)
IntactAhead(tokens) ==
    IF tokens = <<>> \/ Head(tokens).fault # 0 THEN <<>>
    ELSE <<Head(tokens)>> \o IntactAhead(Tail(tokens))

\* deserialize(datagram) of a datagram with a malformed chunk
DeserializeMalformed(tokens) ==
    /\ lastOp \in {"serialize", "packed"}
    /\ Len(fed) < MaxPacked
    /\ collectedFrames_' = deserialize(collectedFrames_, Pack(tokens),
                                       endianness_, extended)
    /\ fed' = Append(fed, -1)
    /\ completed' = <<>>
    /\ lastOp' = "malformed"
    /\ erased' = NoneErased
    /\ carried' = CarriedAhead(tokens)
    /\ probe' = [tokens |-> tokens]
    /\ UNCHANGED <<endianness_, extended, frame, datagrams, cursor, ms, ts, enc>>

InitMalformed == InitWith(PackedFrames)

NextMalformed ==
    \/ SerializeBoth
    \/ /\ lastOp # "malformed"
       /\ \E a \in Tokens({0}) : DeserializePacked(<<a>>)
    \/ \E tokens \in MalformedInputs : DeserializeMalformed(tokens)

SpecMalformed == InitMalformed /\ [][NextMalformed]_vars

----------------------------------------------------------------------------
(* NetworkFrameBuilder called chunk by chunk, NetworkSerializer.cpp:114-228: *)
(* the builder under test is collectedFrames_[frame.id], constructed at the  *)
(* first call, and `fed` logs the calls with their results.                  *)

MaxPuts == 3

\* the variables the builder neither reads nor writes
apart == <<endianness_, extended, frame, datagrams, completed, cursor,
           erased, probe, carried, ms, ts, enc>>

\* a chunk of the frame as deserialize() hands it to the builder
ChunkOf(f, number, data) ==
    [id |-> f.id, number |-> number, interpretation |-> f.interpretation,
     time |-> f.time, priority |-> f.priority, task |-> f.task,
     flow |-> f.flow, data |-> data]

\* a chunk that carries the id of the frame and other metadata
Stranger == [Companion EXCEPT !.id = frame.id]

\* frame sizes of one, of two and of three chunks
MasterSizes == {100, 500, 1000}

\* offsets inside and beyond those sizes
SlaveOffsets == {0, 490, 995, 1050, 1100}

PutMasterChunkOf(f, frameSize, number, data) ==
    /\ Len(fed) < MaxPuts
    /\ LET table == FindOrInsert(collectedFrames_, frame.id)
           put   == putMasterChunk(table[frame.id], frameSize,
                                   ChunkOf(f, number, data), extended)
       IN  /\ collectedFrames_' = [table EXCEPT ![frame.id] = put.builder]
           /\ fed' = Append(fed, [op |-> "master", at |-> frameSize,
                                  size |-> Len(data), ok |-> put.ok,
                                  chunk |-> ChunkOf(f, number, data)])
    /\ lastOp' = "putMasterChunk"
    /\ UNCHANGED apart

PutMasterChunk(frameSize, number, data) ==
    PutMasterChunkOf(frame, frameSize, number, data)

PutSlaveChunk(frameOffset, data) ==
    /\ Len(fed) < MaxPuts
    /\ LET table == FindOrInsert(collectedFrames_, frame.id)
           put   == putSlaveChunk(table[frame.id], frameOffset,
                                  ChunkOf(frame, 0, data), extended)
       IN  /\ collectedFrames_' = [table EXCEPT ![frame.id] = put.builder]
           /\ fed' = Append(fed, [op |-> "slave", at |-> frameOffset,
                                  size |-> Len(data), ok |-> put.ok,
                                  chunk |-> ChunkOf(frame, 0, data)])
    /\ lastOp' = "putSlaveChunk"
    /\ UNCHANGED apart

InitBuilder == InitWith(PackedFrames)

NextBuilder ==
    \/ \E frameSize \in MasterSizes : \E number \in {frame.number, frame.number + 1} :
          PutMasterChunk(frameSize, number, <<1, 2>>)
    \/ \E frameSize \in MasterSizes :
          PutMasterChunkOf(Stranger, frameSize, Stranger.number, <<5, 6, 7>>)
    \/ \E frameOffset \in SlaveOffsets : PutSlaveChunk(frameOffset, <<3, 4>>)

SpecBuilder == InitBuilder /\ [][NextBuilder]_vars

----------------------------------------------------------------------------
(* Two frames of several datagrams each, their datagrams interleaved in     *)
(* transit: every datagram arrives once, and the datagrams of one frame     *)
(* arrive in the order serialize() emitted them.                            *)

\* three datagrams in either protocol variant
Partner == FrameB(Pattern(2900, 5, 3))

\* two datagrams in either protocol variant
InterleavedFrames == {FrameA(Pattern(1600, 3, 1))}

\* the sender encodes both frames
SerializePair ==
    /\ lastOp = "construct"
    /\ datagrams' = serialize(frame, endianness_, extended)
                    \o serialize(Partner, endianness_, extended)
    /\ lastOp' = "serialize"
    /\ UNCHANGED <<endianness_, extended, frame, collectedFrames_, completed,
                   fed, cursor, erased, probe, carried, ms, ts, enc>>

Delivered(i) == \E k \in 1..Len(fed) : fed[k] = i

AllDelivered == datagrams # <<>> /\ \A i \in 1..Len(datagrams) : Delivered(i)

\* datagram i arrives once every datagram the encoder emitted ahead of it
\* for the same frame has arrived
DeserializeInterleaved(i) ==
    /\ lastOp \in {"serialize", "deserialize"}
    /\ ~Delivered(i)
    /\ \A j \in 1..(i - 1) :
          FirstChunkFrameId(datagrams[j]) = FirstChunkFrameId(datagrams[i])
             => Delivered(j)
    /\ Feed(datagrams[i], i, "deserialize")
    /\ UNCHANGED cursor

\* completedFrames() once every datagram has arrived
Harvest ==
    /\ lastOp = "deserialize"
    /\ AllDelivered
    /\ CompletedFrames

InitInterleaved == InitWith(InterleavedFrames)

NextInterleaved ==
    \/ SerializePair
    \/ \E i \in 1..Len(datagrams) : DeserializeInterleaved(i)
    \/ Harvest

SpecInterleaved == InitInterleaved /\ [][NextInterleaved]_vars

----------------------------------------------------------------------------
(* Datagrams of one well-formed chunk that the builder refuses: a master    *)
(* chunk declaring a frame of 0 bytes, and in the extended protocol a slave *)
(* chunk at frame offset 0 (fault 7 writes 0 into the 32-bit field at       *)
(* offset 25 of the chunk header).                                          *)

RefusedTokens ==
    {t \in Tokens({7}) : t.k = 2 => extended}

DeserializeRefused(t) ==
    /\ lastOp # "construct"
    /\ Len(fed) < MaxPacked
    /\ FeedCarrying(Pack(<<t>>), -1, "refused", {})
    /\ UNCHANGED cursor

InitRefused == InitWith(PackedFrames)

NextRefused ==
    \/ SerializeBoth
    \/ \E a \in Tokens({0}) : DeserializePacked(<<a>>)
    \/ \E t \in RefusedTokens : DeserializeRefused(t)

SpecRefused == InitRefused /\ [][NextRefused]_vars

----------------------------------------------------------------------------
(* deserialize() one pass of the chunk loop at a time,                      *)
(* NetworkSerializer.cpp:439-573: what a pass reads, where it reads it and  *)
(* what it hands to a builder.                                              *)

\* variant of ChunkPass: the payload length is not compared with the bytes
\* left
ChunkPassUnchecked(datagram, pos, endian, ext) ==
    LET available  == Len(datagram) - pos
        chunkID    == datagram[pos + 1]
        master     == chunkID = CHUNK_MASTER_ID
        headerSize == IF master THEN CHUNK_MASTER_HEADER_SIZE
                                ELSE CHUNK_SLAVE_HEADER_SIZE(ext)
        chunkSize  == ReadInt(endian, datagram, pos + 1, 2)
        read       == pos + 1 + 2 + CHUNK_TASK_SIZE + CHUNK_FLOW_SIZE + 4 + 1 + 1
                          + 2 + 2 + (IF master \/ ext THEN 4 ELSE 0)
        last       == IF master \/ ext THEN ReadInt(endian, datagram, pos + 25, 4)
                                       ELSE 0
    IN  IF \/ ~(available > qMin(CHUNK_MASTER_HEADER_SIZE, CHUNK_SLAVE_HEADER_SIZE(ext)))
           \/ chunkID \notin {CHUNK_MASTER_ID, CHUNK_SLAVE_ID}
           \/ available - 1 < headerSize
           \/ chunkSize <= headerSize
           \/ chunkSize > CHUNK_MAX_SIZE
           \/ (master /\ GreaterUInt32(last, FRAME_MAX_SIZE))
        THEN [stop |-> TRUE]
        ELSE [stop      |-> FALSE,
              master    |-> master,
              pos       |-> pos,
              read      |-> read,
              chunkSize |-> chunkSize,
              size      |-> chunkSize - headerSize,
              frameID   |-> ReadInt(endian, datagram, pos + 15, 4),
              number    |-> ReadInt(endian, datagram, pos + 23, 2),
              at        |-> last,
              position  |-> read + (chunkSize - headerSize)]

\* one pass of the loop with the read position at pos: the pass stops the
\* loop (lines 439-440, 446-447, 475-480, 507-508, 534-538, 572), or it
\* reads a chunk header that starts at pos and ends at `read`, takes `size`
\* payload bytes from there and leaves the read position at `position`;
\* `at` is the frameSize of a master chunk and the frameOffset of a slave
\* chunk
ChunkPass(datagram, pos, endian, ext) ==
    LET available  == Len(datagram) - pos
        chunkID    == datagram[pos + 1]
        master     == chunkID = CHUNK_MASTER_ID
        headerSize == IF master THEN CHUNK_MASTER_HEADER_SIZE
                                ELSE CHUNK_SLAVE_HEADER_SIZE(ext)
        chunkSize  == ReadInt(endian, datagram, pos + 1, 2)
        read       == pos + 1 + 2 + CHUNK_TASK_SIZE + CHUNK_FLOW_SIZE + 4 + 1 + 1
                          + 2 + 2 + (IF master \/ ext THEN 4 ELSE 0)
        last       == IF master \/ ext THEN ReadInt(endian, datagram, pos + 25, 4)
                                       ELSE 0
    IN  IF \/ ~(available > qMin(CHUNK_MASTER_HEADER_SIZE, CHUNK_SLAVE_HEADER_SIZE(ext)))
           \/ chunkID \notin {CHUNK_MASTER_ID, CHUNK_SLAVE_ID}
           \/ available - 1 < headerSize
           \/ chunkSize <= headerSize
           \/ chunkSize > CHUNK_MAX_SIZE
           \/ (master /\ GreaterUInt32(last, FRAME_MAX_SIZE))
           \/ chunkSize - headerSize > Len(datagram) - read
        THEN [stop |-> TRUE]
        ELSE [stop      |-> FALSE,
              master    |-> master,
              pos       |-> pos,
              read      |-> read,
              chunkSize |-> chunkSize,
              size      |-> chunkSize - headerSize,
              frameID   |-> ReadInt(endian, datagram, pos + 15, 4),
              number    |-> ReadInt(endian, datagram, pos + 23, 2),
              at        |-> last,
              position  |-> read + (chunkSize - headerSize)]

\* the passes of the loop from pos on that hand a chunk to a builder lookup
RECURSIVE Dispatches(_, _, _, _)
Dispatches(datagram, pos, endian, ext) ==
    LET pass == ChunkPass(datagram, pos, endian, ext)
    IN  IF pass.stop THEN <<>>
        ELSE <<pass>> \o Dispatches(datagram, pass.position, endian, ext)

\* lines 416-439: no pass for a datagram dropped at its header
DecodeLog(datagram, endian, ext) ==
    IF DatagramRejected(datagram, endian) THEN <<>>
    ELSE Dispatches(datagram, DATAGRAM_HEADER_SIZE, endian, ext)

\* lines 482-504 and 540-570: the chunk of `call` reaches its builder
ApplyDispatch(table, datagram, call, endian, ext) ==
    LET partial == PartialFrame(datagram, call.pos, endian,
                                IF call.master THEN call.number ELSE 0,
                                SubSeq(datagram, call.read + 1,
                                       call.read + call.size))
    IN  IF call.master
        THEN [FindOrInsert(table, call.frameID) EXCEPT ![call.frameID] =
                 putMasterChunk(@, call.at, partial, ext).builder]
        ELSE IF ext
        THEN [FindOrInsert(table, call.frameID) EXCEPT ![call.frameID] =
                 putSlaveChunk(@, call.at, partial, ext).builder]
        ELSE IF call.frameID \in DOMAIN table
        THEN [table EXCEPT ![call.frameID] =
                 putSlaveChunk(@, 0, partial, ext).builder]
        ELSE table

RECURSIVE ApplyDispatches(_, _, _, _, _)
ApplyDispatches(table, datagram, log, endian, ext) ==
    IF log = <<>> THEN table
    ELSE ApplyDispatches(ApplyDispatch(table, datagram, Head(log), endian, ext),
                         datagram, Tail(log), endian, ext)

\* a chunk behind an intact one cut inside its header
CutInputs ==
    {<<[owner |-> o, k |-> 1, fault |-> 0], [owner |-> 3 - o, k |-> k, fault |-> 8]>> :
        o \in {1, 2}, k \in {1, 2}}

LoggedInputs == PackedInputs \cup MalformedInputs \cup CutInputs

\* deserialize(datagram), the passes of its chunk loop logged in `probe`
DeserializeLogged(tokens) ==
    /\ lastOp \in {"serialize", "packed"}
    /\ collectedFrames_' = deserialize(collectedFrames_, Pack(tokens),
                                       endianness_, extended)
    /\ fed' = Append(fed, 1)
    /\ completed' = <<>>
    /\ lastOp' = "logged"
    /\ erased' = NoneErased
    /\ carried' = CarriedAhead(tokens)
    /\ probe' = [tokens |-> tokens,
                 log    |-> DecodeLog(Pack(tokens), endianness_, extended)]
    /\ UNCHANGED <<endianness_, extended, frame, datagrams, cursor, ms, ts, enc>>

\* line 191 with frameOffset + partialFrame.data.size() above INT_MAX: the
\* signed addition is undefined.  The call is refused ahead of it by lines
\* 186-189, or it ends in one of two ways: the builder is left as it was,
\* or the chunk is counted (lines 196-209); the bytes of a buffer of 2^31
\* bytes are not held, the data stay as they were
putSlaveChunkFar(b, frameOffset, partialFrame) ==
    IF isFrameCompleted(b) \/ frameOffset <= 0 \/ partialFrame.data = <<>>
    THEN {b}
    ELSE {b,
          [b EXCEPT !.frame_ = [(IF b.collectedChunks_ = 0
                                 THEN SeedMetadata(b.frame_, partialFrame)
                                 ELSE b.frame_) EXCEPT !.data = b.frame_.data],
                    !.collectedChunks_ = b.collectedChunks_ + 1]}

\* the extended slave chunks of the two frames with frameOffset INT_MAX
FarTokens == {t \in Tokens({9}) : t.k = 2}

\* deserialize(datagram) of a datagram with one slave chunk whose frame
\* offset is INT_MAX, in the extended protocol
DeserializeFar(t) ==
    /\ extended
    /\ lastOp \in {"serialize", "packed"}
    /\ LET datagram == Pack(<<t>>)
           log      == DecodeLog(datagram, endianness_, extended)
           table    == FindOrInsert(collectedFrames_, log[1].frameID)
       IN  /\ Len(log) = 1
           /\ log[1].at > INT_MAX - log[1].size
           /\ \E b \in putSlaveChunkFar(
                           table[log[1].frameID], log[1].at,
                           PartialFrame(datagram, log[1].pos, endianness_, 0,
                                        SubSeq(datagram, log[1].read + 1,
                                               log[1].read + log[1].size))) :
                 collectedFrames_' = [table EXCEPT ![log[1].frameID] = b]
           /\ probe' = [tokens |-> <<t>>, log |-> log]
    /\ fed' = Append(fed, 1)
    /\ completed' = <<>>
    /\ lastOp' = "far"
    /\ erased' = NoneErased
    /\ carried' = {}
    /\ UNCHANGED <<endianness_, extended, frame, datagrams, cursor, ms, ts, enc>>

InitDecode == InitWith(PackedFrames)

NextDecode ==
    \/ SerializeBoth
    \/ /\ lastOp = "serialize"
       /\ \E a \in Tokens({0}) : DeserializePacked(<<a>>)
    \/ \E tokens \in LoggedInputs : DeserializeLogged(tokens)
    \/ \E t \in FarTokens : DeserializeFar(t)

SpecDecode == InitDecode /\ [][NextDecode]_vars

----------------------------------------------------------------------------
(* InterprocessSerializer::deserialize, InterprocessSerializer.cpp:94-109.  *)
(* A line is a sequence of byte values; the dictionary maps QString keys    *)
(* (sequences of code points) to QString values.  `probe` holds the line    *)
(* and, after the call, frame.parameterDictionary.                          *)

MaxFrontLen == 5

\* QByteArray::toLower: the ASCII capitals 'A'..'Z'
toLower(array) ==
    [k \in 1..Len(array) |->
        IF array[k] \in 65..90 THEN array[k] + 32 ELSE array[k]]

\* QByteArray::split(sep): the parts between the separators, empty ones
\* included
RECURSIVE split(_, _)
split(array, sep) ==
    IF \A k \in 1..Len(array) : array[k] # sep THEN <<array>>
    ELSE LET at == CHOOSE k \in 1..Len(array) :
                      array[k] = sep /\ \A q \in 1..(k - 1) : array[q] # sep
         IN  <<SubSeq(array, 1, at - 1)>>
             \o split(SubSeq(array, at + 1, Len(array)), sep)

\* QByteArray::indexOf(ch): 0-based index of the first ch, -1 if none
indexOf(array, ch) ==
    IF \A k \in 1..Len(array) : array[k] # ch THEN -1
    ELSE (CHOOSE k \in 1..Len(array) :
             array[k] = ch /\ \A q \in 1..(k - 1) : array[q] # ch) - 1

\* QByteArray::trimmed: '\t', '\n', '\v', '\f', '\r' and ' ' removed from
\* both ends
RECURSIVE trimmed(_)
trimmed(array) ==
    IF array = <<>> THEN array
    ELSE IF array[1] \in {9, 10, 11, 12, 13, 32} THEN trimmed(Tail(array))
    ELSE IF array[Len(array)] \in {9, 10, 11, 12, 13, 32}
         THEN trimmed(SubSeq(array, 1, Len(array) - 1))
    ELSE array

\* the 6-bit value of a character of the Base64 alphabet, -1 for any other
Base64Value(ch) ==
    IF ch \in 65..90 THEN ch - 65
    ELSE IF ch \in 97..122 THEN ch - 97 + 26
    ELSE IF ch \in 48..57 THEN ch - 48 + 52
    ELSE IF ch = 43 THEN 62
    ELSE IF ch = 47 THEN 63
    ELSE -1

\* QByteArray::fromBase64 with IgnoreBase64DecodingErrors: the characters
\* outside the alphabet are passed over, a byte is produced whenever 8 bits
\* are collected, and the bits left at the end are dropped
RECURSIVE FromBase64(_, _, _)
FromBase64(array, buf, nbits) ==
    IF array = <<>> THEN <<>>
    ELSE LET d == Base64Value(Head(array))
         IN  IF d = -1 THEN FromBase64(Tail(array), buf, nbits)
             ELSE IF nbits + 6 >= 8
             THEN <<(buf * 64 + d) \div (2 ^ (nbits - 2))>>
                  \o FromBase64(Tail(array), (buf * 64 + d) % (2 ^ (nbits - 2)),
                                nbits - 2)
             ELSE FromBase64(Tail(array), buf * 64 + d, nbits + 6)

\* lines 20-27 of the file
decodeBase64(array) == FromBase64(array, 0, 0)

\* QString(const QByteArray&) of line 107: the bytes read as UTF-8; a byte
\* from 0x80 on that no lead byte announces becomes U+FFFD (the lines
\* decoded here yield no lead byte)
ToQString(bytes) ==
    [k \in 1..Len(bytes) |-> IF bytes[k] < 128 THEN bytes[k] ELSE 65533]

\* QHash::insert: the value of an existing key is replaced
Insert(dictionary, key, value) ==
    [k \in DOMAIN dictionary \cup {key} |->
        IF k = key THEN value ELSE dictionary[k]]

\* variant of PairSkipped: a pair that ends with '=' is skipped
PairSkippedEndingWithEquals(pair) ==
    indexOf(pair, 61) <= 0 \/ pair[Len(pair)] = 61

\* line 101: the pair is passed over
PairSkipped(pair) ==
    indexOf(pair, 61) <= 0 \/ indexOf(pair, 61) >= Len(pair) - 1

\* lines 99-108: the loop over the pairs from pair k on
RECURSIVE InsertPairs(_, _, _)
InsertPairs(dictionary, pairs, k) ==
    IF k > Len(pairs) THEN dictionary
    ELSE LET pair  == pairs[k]
             index == indexOf(pair, 61)
             key   == decodeBase64(trimmed(SubSeq(pair, 1, index)))
             value == decodeBase64(trimmed(SubSeq(pair, index + 2, Len(pair))))
         IN  IF PairSkipped(pair) \/ key = <<>>
             THEN InsertPairs(dictionary, pairs, k + 1)
             ELSE InsertPairs(Insert(dictionary, ToQString(key), ToQString(value)),
                              pairs, k + 1)

\* lines 94-109, on a frame whose dictionary is empty
InterprocessDeserialize(array) ==
    InsertPairs(<<>>, split(toLower(array), 32), 1)

\* 'A', 'a', 'g', '=', ' ' and '\n'
LineAlphabet == {65, 97, 103, 61, 32, 10}

\* a second pair behind the front of the line: "aa=ag", "gg=aa", "ga=",
\* "=aa", "aa" and "AA=AG="
SecondPairs ==
    { <<97, 97, 61, 97, 103>>, <<103, 103, 61, 97, 97>>, <<103, 97, 61>>,
      <<61, 97, 97>>, <<97, 97>>, <<65, 65, 61, 65, 71, 61>> }

\* every front of up to MaxFrontLen characters, a space and a second pair
Lines ==
    { front \o <<32>> \o pair :
        front \in UNION {[1..n -> LineAlphabet] : n \in 0..MaxFrontLen},
        pair \in SecondPairs }

\* the caller hands the line to deserialize()
DeserializeLine ==
    /\ lastOp = "construct"
    /\ probe' = [line |-> probe.line,
                 parameterDictionary |-> InterprocessDeserialize(probe.line)]
    /\ lastOp' = "interprocess"
    /\ UNCHANGED <<endianness_, extended, frame, datagrams, collectedFrames_,
                   completed, fed, cursor, erased, carried, ms, ts, enc>>

InitInterprocess ==
    /\ endianness_ = "BigEndian"
    /\ extended = FALSE
    /\ frame = FrameA(Pattern(1, 171, 0))
    /\ datagrams = <<>>
    /\ collectedFrames_ = <<>>
    /\ completed = <<>>
    /\ fed = <<>>
    /\ cursor = 0
    /\ lastOp = "construct"
    /\ erased = NoneErased
    /\ probe \in {[line |-> line] : line \in Lines}
    /\ carried = {}
    /\ ms = NoSerializer
    /\ ts = NoClock
    /\ enc = NoEncoder

NextInterprocess == DeserializeLine

SpecInterprocess == InitInterprocess /\ [][NextInterprocess]_vars

----------------------------------------------------------------------------
(* Properties *)

InOrder(n) == [k \in 1..n |-> k]

\* the list returned by completedFrames() holds exactly the frame sent
ReturnsFrame(list) == Len(list) = 1 /\ SameFrame(list[1], frame)

\* C1: round trip in order.  For every accepted frame, when the datagrams of
\* serialize(F) were delivered in emission order to an empty serializer of
\* the same endianness and protocol variant, completedFrames() returns
\* exactly one frame, equal to F up to the NUL padding of task and flow.
RoundTripInOrder ==
    [][(/\ lastOp' = "completedFrames"
        /\ datagrams # <<>>
        /\ fed = InOrder(Len(datagrams))) => ReturnsFrame(completed')]_vars

\* a frame of several datagrams was delivered in order and harvested
RoundTripInOrderReached ==
    /\ lastOp = "completedFrames"
    /\ Len(datagrams) >= 4
    /\ fed = Append(InOrder(Len(datagrams)), 0)
    /\ ReturnsFrame(completed)

\* each datagram of the list delivered exactly once
IsPermutation(log) ==
    /\ Len(log) = Len(datagrams)
    /\ \A i \in 1..Len(datagrams) : \E k \in 1..Len(log) : log[k] = i

\* C2: interleave tolerance.  In the extended protocol, after the datagrams
\* of serialize(F) were delivered once each in any order to an empty
\* serializer, completedFrames() returns the frame F.
InterleaveTolerance ==
    [][(/\ lastOp' = "completedFrames"
        /\ extended
        /\ datagrams # <<>>
        /\ IsPermutation(fed)) => ReturnsFrame(completed')]_vars

\* three datagrams were delivered in reverse order and the frame harvested
InterleaveToleranceReached ==
    /\ lastOp = "completedFrames"
    /\ extended
    /\ fed = <<3, 2, 1, 0>>
    /\ Len(datagrams) = 3
    /\ ReturnsFrame(completed)

\* C3: duplicate tolerance.  After the complete list was delivered twice in
\* succession to an empty serializer with no harvest in between,
\* completedFrames() returns exactly one frame, equal to F.
DuplicateTolerance ==
    [][(/\ lastOp' = "completedFrames"
        /\ datagrams # <<>>
        /\ fed = InOrder(Len(datagrams)) \o InOrder(Len(datagrams)))
          => ReturnsFrame(completed')]_vars

\* a list of several datagrams was delivered twice and then harvested
DuplicateToleranceReached ==
    /\ lastOp = "completedFrames"
    /\ Len(datagrams) >= 2
    /\ fed = Append(InOrder(Len(datagrams)) \o InOrder(Len(datagrams)), 0)
    /\ ReturnsFrame(completed)

\* the list in emission order with the third datagram damaged
ThirdDamaged(n) == [k \in 1..n |-> IF k = 3 THEN -3 ELSE k]

IsPrefix(a, b) == Len(a) <= Len(b) /\ a = SubSeq(b, 1, Len(a))

\* C4: corrupted datagram then retry.  When the datagrams of a frame of at
\* least three datagrams are delivered in order with the third one damaged,
\* every completedFrames() returns empty until the intact third datagram is
\* delivered, and after it was delivered completedFrames() returns F.
RetryDeliversFrame ==
    [][(/\ lastOp' = "completedFrames"
        /\ Len(datagrams) >= 3)
          => /\ (Len(fed) >= 3 /\ IsPrefix(fed, ThirdDamaged(Len(datagrams))))
                  => completed' = <<>>
             /\ fed = Append(ThirdDamaged(Len(datagrams)), 3)
                  => ReturnsFrame(completed')]_vars

\* C5: CRC sensitivity.  A datagram of serialize() with one bit inverted, at
\* any offset, is rejected by deserialize(): no builder is created and none
\* is modified.
BitFlipRejected ==
    [][lastOp' = "flipped" => collectedFrames_' = collectedFrames_]_vars

\* a datagram with one bit inverted met a table holding a builder
BitFlipRejectedReached ==
    /\ lastOp = "flipped"
    /\ collectedFrames_ # <<>>
    /\ \E k \in 1..Len(fed) : fed[k] > 0

\* C6: version rejection.  A datagram whose version field is not 0x0100 in
\* the configured endianness leaves the builder table unchanged, even when
\* its size field and CRC are correct.
VersionRejected ==
    [][lastOp' = "version" => collectedFrames_' = collectedFrames_]_vars

\* a datagram of another version was delivered first and left no builder
VersionRejectedReached ==
    /\ lastOp = "version"
    /\ Len(fed) = 1
    /\ collectedFrames_ = <<>>

\* C7: decode size validation.  An input of length <= 10 or > 1500, or whose
\* size field differs from its length, leaves the builder table unchanged.
SizeRejected ==
    [][lastOp' \in {"length", "size"} => collectedFrames_' = collectedFrames_]_vars

\* an input with a wrong size field was delivered first and left no builder
SizeRejectedReached ==
    /\ lastOp = "size"
    /\ Len(fed) = 1
    /\ collectedFrames_ = <<>>

\* the refusal conditions as the encoder contract lists them
ContractRefuses(f) ==
    \/ Len(f.task) = 0
    \/ Len(f.flow) = 0
    \/ f.data.size = 0
    \/ Len(toUtf8(f.task)) > 6
    \/ Len(toUtf8(f.flow)) > 6
    \/ f.data.size > 31850493

\* C8: encode preconditions.  serialize(F) returns the empty list whenever
\* task, flow or data is empty, task or flow exceeds 6 UTF-8 bytes or data
\* exceeds FRAME_MAX_SIZE, and a non-empty list for every other frame.
EncodePreconditions ==
    lastOp # "construct" => ((datagrams = <<>>) <=> ContractRefuses(frame))

\* a flow of four characters in eight UTF-8 bytes was refused
EncodePreconditionsReached ==
    /\ lastOp = "serialize"
    /\ datagrams = <<>>
    /\ Len(frame.flow) = 4
    /\ Len(toUtf8(frame.flow)) = 8

\* C9 as stated: getChunkNumber(s) is the number of datagrams the encoder
\* produces for a frame of s bytes.
ChunkCountIsDatagramCount ==
    lastOp = "count" => probe.chunkNumber = probe.datagrams

\* C9 amended: getChunkNumber(s) is the number of chunks the encoder writes
\* for a frame of s bytes, which is at least the number of datagrams.
ChunkCountIsChunkCount ==
    lastOp = "count" =>
        /\ probe.chunkNumber = probe.chunks
        /\ probe.datagrams <= probe.chunkNumber

\* the 10 000-byte frame: more chunks than datagrams
ChunkCountIsChunkCountReached ==
    /\ lastOp = "count"
    /\ probe.size = 10000
    /\ probe.datagrams = 8
    /\ probe.chunkNumber > probe.datagrams

\* C10: clear.  clear() empties the builder table whatever it holds, a
\* completedFrames() right after it returns empty, and a second clear()
\* changes nothing.
ClearEmpties ==
    [][/\ lastOp' = "clear" => collectedFrames_' = <<>>
       /\ (lastOp = "clear" /\ lastOp' = "completedFrames") => completed' = <<>>
       /\ (lastOp = "clear" /\ lastOp' = "clear")
            => collectedFrames_' = collectedFrames_]_vars

\* clear() dropped an incomplete builder
ClearEmptiesReached ==
    /\ lastOp = "clear"
    /\ erased.incomplete = 1
    /\ collectedFrames_ = <<>>

\* C11: harvest.  completedFrames() returns exactly the frames of the
\* builders complete at the call, removes exactly those builders, leaves
\* every other builder as it was, and returns nothing when called again
\* with no deserialize() in between.
HarvestExact ==
    [][lastOp' = "completedFrames" =>
        /\ Len(completed') = Cardinality(CompleteIds(collectedFrames_))
        /\ {completed'[k] : k \in 1..Len(completed')}
             = {collectedFrames_[id].frame_ : id \in CompleteIds(collectedFrames_)}
        /\ DOMAIN collectedFrames_'
             = {id \in DOMAIN collectedFrames_ : ~isFrameCompleted(collectedFrames_[id])}
        /\ \A id \in DOMAIN collectedFrames_' :
              collectedFrames_'[id] = collectedFrames_[id]
        /\ lastOp = "completedFrames" => completed' = <<>>]_vars

\* a harvest returned one frame and left an incomplete builder behind
HarvestExactReached ==
    /\ lastOp = "completedFrames"
    /\ Len(completed) = 1
    /\ erased.complete = 1
    /\ \E id \in DOMAIN collectedFrames_ :
          /\ ~isFrameCompleted(collectedFrames_[id])
          /\ collectedFrames_[id].collectedChunks_ > 0

DeliveryOps ==
    {"deserialize", "corrupted", "flipped", "version", "length", "size",
     "packed", "faulted"}

\* C12: decode isolation.  A deserialize() call changes, creates or removes
\* no builder other than those whose frame id is carried by a chunk of the
\* datagram ahead of its first offending chunk.
DecodeIsolation ==
    [][lastOp' \in DeliveryOps =>
        /\ \A id \in DOMAIN collectedFrames_ \ carried' :
              /\ id \in DOMAIN collectedFrames_'
              /\ collectedFrames_'[id] = collectedFrames_[id]
        /\ DOMAIN collectedFrames_' \subseteq DOMAIN collectedFrames_ \cup carried']_vars

\* a malformed datagram met the builder in progress of the frame whose
\* chunk sits behind the offending chunk
DecodeIsolationReached ==
    /\ lastOp = "faulted"
    /\ carried # {}
    /\ carried \subseteq DOMAIN collectedFrames_
    /\ \E id \in DOMAIN collectedFrames_ \ carried :
          /\ ~isFrameCompleted(collectedFrames_[id])
          /\ collectedFrames_[id].collectedChunks_ = 1

ReadOps == {"read", "readRawData", "skipRawData"}

WriteOps == {"write", "writeRawData"}

\* C13: sticky status.  Once the status of a MemorySerializer is not Ok, no
\* read, write, skip, seek, setStatus or other call changes it, and
\* resetStatus() returns it to Ok.
StickyStatus ==
    [][ms.s.status_ # "Ok" =>
          IF ms'.op = "resetStatus" THEN ms'.s.status_ = "Ok"
          ELSE ms'.s.status_ = ms.s.status_]_vars

\* a skip fell short while WriteFailed was latched
StickyStatusReached ==
    /\ ms.op = "skipRawData"
    /\ ms.result # ms.requested
    /\ ms.s.device_ = "device"
    /\ ms.s.status_ = "WriteFailed"

\* C14: writes are no-ops while the status is not Ok.  Every typed or raw
\* write issued with status ReadPastEnd or WriteFailed leaves the bytes and
\* the position of the device unchanged.
WritesSuppressed ==
    [][(ms.s.status_ # "Ok" /\ ms'.op \in WriteOps) =>
          /\ ms'.s.dev = ms.s.dev
          /\ ms'.result = -1]_vars

\* a write the device had room for was refused under ReadPastEnd
WritesSuppressedReached ==
    /\ ms.op \in WriteOps
    /\ ms.s.status_ = "ReadPastEnd"
    /\ ms.s.device_ = "device"
    /\ ms.s.dev.writable
    /\ ms.s.dev.pos + ms.requested <= ms.s.dev.limit
    /\ ms.result = -1

\* C15 as stated: once the status is not Ok, every typed read, raw read,
\* skip and write leaves the position and the device unchanged.
AllOperationsSuppressed ==
    [][(ms.s.status_ # "Ok" /\ ms'.op \in ReadOps \cup WriteOps) =>
          ms'.s.dev = ms.s.dev]_vars

\* C15 amended: once the status is not Ok, writes leave the device
\* unchanged, while typed reads, raw reads and skips still go to the device:
\* on a readable device they advance the position by the bytes available up
\* to the length asked for, and leave the bytes and the status unchanged.
ReadsProceedAfterFailure ==
    [][ms.s.status_ # "Ok" =>
          /\ ms'.op \in WriteOps => ms'.s.dev = ms.s.dev
          /\ (ms'.op \in ReadOps /\ ms.s.device_ = "device" /\ ms.s.dev.readable) =>
                /\ ms'.s.dev.pos
                     = ms.s.dev.pos
                       + qMin(ms'.requested, Len(ms.s.dev.bytes) - ms.s.dev.pos)
                /\ ms'.s.dev.bytes = ms.s.dev.bytes
                /\ ms'.s.status_ = ms.s.status_]_vars

\* a read transferred bytes while WriteFailed was latched
ReadsProceedAfterFailureReached ==
    /\ ms.op \in {"read", "readRawData"}
    /\ ms.s.status_ = "WriteFailed"
    /\ ms.result = ms.requested
    /\ ms.s.dev.pos >= ms.requested

FailuresSurface ==
    [][(ms'.op \in ReadOps \cup WriteOps /\ ms'.result # ms'.requested) =>
          ms'.s.status_ # "Ok"]_vars

\* C18: endian round trip.  For every integer scalar type, either
\* endianness and every value x, write(x); seek(0); read() returns x with
\* status Ok, and under big-endian the bytes stored are the bytes of x most
\* significant first, on a host of either byte order.
EndianRoundTrip ==
    /\ ms.trip.stage = "read" =>
          /\ ms.item = ms.trip.x
          /\ ms.s.status_ = "Ok"
    /\ (ms.trip.stage = "written" /\ ms.s.endianness_ = "BigEndian"
          /\ ms.trip.type # "bool") =>
          SubSeq(ms.s.dev.bytes, 1, SizeOf(ms.trip.type)) = ms.trip.x

\* 0x0100 written big-endian on a little-endian host after setEndianness,
\* stored as 01 00 and read back
EndianRoundTripReached ==
    /\ ms.trip.stage = "read"
    /\ ms.trip.type = "quint16"
    /\ ms.trip.x = <<1, 0>>
    /\ ms.s.host = "LittleEndian"
    /\ ms.s.endianness_ = "BigEndian"
    /\ SubSeq(ms.s.dev.bytes, 1, 2) = <<1, 0>>
    /\ ms.item = <<1, 0>>

\* C19: monotonic timestamp.  Successive calls of timestampMicroseconds64()
\* from one thread return strictly increasing values whatever the steady
\* clock does without going backwards, and a call that reads the same clock
\* value as the call before it returns that call's value plus one
\* microsecond.
MonotonicTimestamp ==
    \A j \in 2..Len(ts.calls) :
       /\ ts.calls[j].value > ts.calls[j - 1].value
       /\ ts.calls[j].current = ts.calls[j - 1].current =>
             ts.calls[j].value = ts.calls[j - 1].value + 1

\* three calls while the clock stood still, each one microsecond after the
\* one before
MonotonicTimestampReached ==
    /\ Len(ts.calls) = 3
    /\ ts.calls[1].current = ts.calls[3].current
    /\ ts.calls[2].value = ts.calls[1].value + 1
    /\ ts.calls[3].value = ts.calls[2].value + 1

\* C20: timestamp under concurrency.  When several threads call
\* timestampMicroseconds64(), no two calls return the same value, and a call
\* that starts after another call has returned obtains a strictly greater
\* value.
ConcurrentTimestamp ==
    \A i, j \in 1..Len(ts.calls) :
       /\ i # j => ts.calls[i].value # ts.calls[j].value
       /\ ts.calls[i].finished < ts.calls[j].started =>
             ts.calls[i].value < ts.calls[j].value

\* lines 353-362 and 375-386: the header bytes written for chunk c
ChunkHeader(c) == ChunkBytes(frame, [c EXCEPT !.dataSize = 0], endianness_, extended)

\* the bytes written for `chunks`: headers and payloads
RECURSIVE WrittenSize(_)
WrittenSize(chunks) ==
    IF chunks = <<>> THEN 0
    ELSE Len(ChunkHeader(Head(chunks))) + Head(chunks).dataSize
         + WrittenSize(Tail(chunks))

\* C21: encoder size bounds.  Every datagram serialize() emits for an
\* accepted frame is at most 1500 bytes long, the size field of its header
\* equals its length, and every chunk in it is at most 512 bytes long, header
\* and payload together, as its size field says, with at least one payload
\* byte.
EncoderSizeBounds ==
    (enc.pc # "idle" /\ enc.count > 0) =>
       /\ DATAGRAM_HEADER_SIZE + WrittenSize(enc.datagram.chunks) <= DATAGRAM_MAX_SIZE
       /\ ReadInt(endianness_, DatagramHeader(enc.datagram.size, endianness_), 2, 2)
             = DATAGRAM_HEADER_SIZE + WrittenSize(enc.datagram.chunks)
       /\ \A k \in 1..Len(enc.datagram.chunks) :
             LET c == enc.datagram.chunks[k]
             IN  /\ Len(ChunkHeader(c)) + c.dataSize <= CHUNK_MAX_SIZE
                 /\ ReadInt(endianness_, ChunkHeader(c), 1, 2)
                       = Len(ChunkHeader(c)) + c.dataSize
                 /\ c.dataSize >= 1

\* the first datagram of a frame of 3000 bytes: 1500 bytes in three chunks
\* of 512, 512 and 466 bytes
EncoderSizeBoundsReached ==
    /\ enc.pc = "loop"
    /\ enc.frameSize = 3000
    /\ enc.count = 1
    /\ enc.datagram.size = DATAGRAM_MAX_SIZE
    /\ Len(enc.datagram.chunks) = 3
    /\ enc.datagram.chunks[3].allSize = 466

\* C22: no corrupted frame is delivered.  Whatever datagrams of serialize(F)
\* were fed to a fresh serializer, in any order, with omissions and
\* repetitions, every frame completedFrames() returns has exactly the data
\* of F.
NoCorruptedFrame ==
    \A k \in 1..Len(completed) :
       completed[k].data = DataBytes(frame.data, 0, frame.data.size)

\* C23: getChunkNumber matches the encoder's packing.  getChunkNumber(s) is
\* the number of chunks serialize() writes for a frame of s data bytes, so
\* that while the list is delivered in emission order the builder has
\* detected that many chunks, has collected the chunks of the datagrams
\* delivered so far, and is complete when the last datagram was delivered and
\* not before.
CountMatchesPacking ==
    (lastOp = "deserialize" /\ fed = InOrder(Len(fed))) =>
       LET plan == SerializePlan(<<>>, 0, 1, frame.data.size, extended)
           b    == collectedFrames_[frame.id]
       IN  /\ getChunkNumber(frame.data.size, extended) = CountChunks(plan)
           /\ b.detectedChunks_ = CountChunks(plan)
           /\ b.collectedChunks_ = CountChunks(SubSeq(plan, 1, Len(fed)))
           /\ isFrameCompleted(b) <=> Len(fed) = Len(datagrams)

\* a frame of 1412 bytes in the base protocol: four chunks, the builder
\* complete after the second of two datagrams
CountMatchesPackingReached ==
    /\ ~extended
    /\ frame.data.size = 1412
    /\ lastOp = "deserialize"
    /\ fed = <<1, 2>>
    /\ collectedFrames_[frame.id].collectedChunks_ = 4
    /\ isFrameCompleted(collectedFrames_[frame.id])

\* C24: encoder chunk order.  serialize() emits exactly one master chunk,
\* the first chunk of the first datagram; every other chunk is a slave
\* chunk, and the slave chunk numbers written are 1, 2, 3, ... in emission
\* order across the datagrams of the frame.
EncoderChunkOrder ==
    (enc.pc # "idle" /\ enc.count > 0) =>
       \A k \in 1..Len(enc.datagram.chunks) :
          IF enc.before.chunks = 0 /\ k = 1
          THEN ChunkHeader(enc.datagram.chunks[k])[1] = CHUNK_MASTER_ID
          ELSE /\ ChunkHeader(enc.datagram.chunks[k])[1] = CHUNK_SLAVE_ID
               /\ ReadInt(endianness_, ChunkHeader(enc.datagram.chunks[k]), 23, 2)
                     = enc.before.slaves
                       + SlaveCount(SubSeq(enc.datagram.chunks, 1, k))

\* C25: encoder payload partition.  Every chunk copies the frame data from
\* the offset at which the payload of the chunks before it ended, nothing
\* lies beyond the end of the data, and when serialize() returns the payloads
\* add up to the data; the master chunk carries the data size as frameSize,
\* and in the extended protocol a slave chunk carries as frameOffset the
\* payload length of all chunks before it.
EncoderPayloadPartition ==
    (enc.pc # "idle") =>
       /\ \A k \in 1..Len(enc.datagram.chunks) :
             LET c      == enc.datagram.chunks[k]
                 behind == enc.before.payload
                           + PayloadSize(SubSeq(enc.datagram.chunks, 1, k - 1))
             IN  /\ c.index = behind
                 /\ c.index + c.dataSize <= frame.data.size
                 /\ ChunkHeader(c)[1] = CHUNK_MASTER_ID =>
                       ReadInt(endianness_, ChunkHeader(c), 25, 4) = frame.data.size
                 /\ (extended /\ ChunkHeader(c)[1] = CHUNK_SLAVE_ID) =>
                       ReadInt(endianness_, ChunkHeader(c), 25, 4) = behind
       /\ (enc.pc = "returned" /\ enc.count > 0) =>
             enc.before.payload + PayloadSize(enc.datagram.chunks) = frame.data.size

\* a frame of 10000 bytes in the extended protocol: seven datagrams of 1403
\* data bytes and an eighth with the last 179
EncoderPayloadPartitionReached ==
    /\ enc.pc = "returned"
    /\ extended
    /\ frame.data.size = 10000
    /\ enc.count = 8
    /\ enc.before.payload = 9821
    /\ PayloadSize(enc.datagram.chunks) = 179

\* a MemorySerializer used by serialize() has latched a failure
FailureLatched == "s" \in DOMAIN ms /\ ms.s.status_ # "Ok"

\* C26: encode is all-or-nothing.  Whenever an operation of the
\* MemorySerializer latched a failure while a datagram was being built,
\* serialize() comes to return, and the list it returns is empty.
EncodeAllOrNothing ==
    FailureLatched ~> (enc.pc = "returned" /\ datagrams = <<>>)

\* the table after the chunks ahead of the first offending chunk were
\* dispatched, and no other
Dispatched(table, tokens) ==
    IF IntactAhead(tokens) = <<>> THEN table
    ELSE deserialize(table, Pack(IntactAhead(tokens)), endianness_, extended)

\* C27: a malformed chunk stops the datagram.  A datagram with a valid header
\* whose chunk has an unknown id, a chunkSize not above its header size or
\* above CHUNK_MAX_SIZE, a master frameSize above FRAME_MAX_SIZE or a payload
\* longer than the bytes left changes the builders exactly as the chunks ahead
\* of that chunk do: they stay applied, and neither the offending chunk nor a
\* chunk behind it reaches a builder.
MalformedChunkStops ==
    [][lastOp' = "malformed" =>
        collectedFrames_' = Dispatched(collectedFrames_, probe'.tokens)]_vars

\* the chunk ahead was applied, and the frame of the intact slave chunk
\* behind the offending chunk has a builder that waits for it
MalformedChunkStopsReached ==
    /\ lastOp = "malformed"
    /\ Len(probe.tokens) = 3
    /\ probe.tokens[2].fault # 0
    /\ probe.tokens[3].k = 2
    /\ LET ahead  == FrameOf(probe.tokens[1].owner).id
           behind == FrameOf(probe.tokens[3].owner).id
       IN  /\ ahead \in DOMAIN collectedFrames_
           /\ collectedFrames_[ahead].collectedChunks_ = 1
           /\ behind \in DOMAIN collectedFrames_
           /\ collectedFrames_[behind].masterChunkFound_
           /\ ~isFrameCompleted(collectedFrames_[behind])

\* the payloads of the chunks picked from a datagram, in datagram order
RECURSIVE PickedPayloads(_, _, _)
PickedPayloads(chunks, picks, k) ==
    IF k > Len(chunks) THEN <<>>
    ELSE (IF k \in picks THEN DataBytes(frame.data, chunks[k].index, chunks[k].dataSize)
                         ELSE <<>>)
         \o PickedPayloads(chunks, picks, k + 1)

\* C28: base protocol, slave before master.  When a datagram of the frame
\* is decoded in the base protocol, a slave chunk whose frame id has no
\* builder creates none and is dropped; a builder takes a slave chunk only
\* if it took the master chunk before; and the data of the builder grows by
\* the payloads of the chunks it took, in the order of their arrival.
BaseSlaveAfterMaster ==
    [][(~extended /\ lastOp' = "deserialize") =>
        LET chunks  == SerializePlan(<<>>, 0, 1, frame.data.size,
                                     FALSE)[fed'[Len(fed')]].chunks
            had     == frame.id \in DOMAIN collectedFrames_
            before  == IF had THEN collectedFrames_[frame.id] ELSE NewBuilder
            arrives == chunks[1].id = CHUNK_MASTER_ID
        IN  /\ (~had /\ ~arrives) => collectedFrames_' = collectedFrames_
            /\ frame.id \in DOMAIN collectedFrames_' =>
                 \E picks \in SUBSET (1..Len(chunks)) :
                    /\ collectedFrames_'[frame.id].collectedChunks_
                           = before.collectedChunks_ + Cardinality(picks)
                    /\ collectedFrames_'[frame.id].frame_.data
                           = before.frame_.data \o PickedPayloads(chunks, picks, 1)
                    /\ picks # {} =>
                           before.masterChunkFound_ \/ (arrives /\ 1 \in picks)
                    /\ (arrives /\ 1 \in picks) => ~before.masterChunkFound_]_vars

\* a datagram of slave chunks came first and left no builder, then the
\* master chunk came, and slave chunks of a later datagram were appended
BaseSlaveAfterMasterReached ==
    /\ ~extended
    /\ lastOp = "deserialize"
    /\ Len(fed) = 3
    /\ fed[1] > 1
    /\ fed[2] = 1
    /\ fed[3] > 1
    /\ frame.id \in DOMAIN collectedFrames_
    /\ collectedFrames_[frame.id].masterChunkFound_
    /\ collectedFrames_[frame.id].collectedChunks_ > 3

\* the builder under test, and whether it has taken a master chunk
Built == collectedFrames_[frame.id]

MasterTaken == frame.id \in DOMAIN collectedFrames_ /\ Built.masterChunkFound_

\* the frame size the master chunk taken by the builder declared
RECURSIVE DeclaredIn(_)
DeclaredIn(log) ==
    IF log[Len(log)].op = "master" /\ log[Len(log)].ok THEN log[Len(log)].at
    ELSE DeclaredIn(SubSeq(log, 1, Len(log) - 1))

\* C29: at most one master per builder.  Once the builder has taken a master
\* chunk, a further putMasterChunk returns false and leaves the builder as it
\* was (data, metadata, masterChunkFound_, collectedChunks_,
\* detectedChunks_), and a slave chunk put after the refused master that
\* lies inside the declared frame is taken while the frame is incomplete.
OneMasterPerBuilder ==
    [][/\ (MasterTaken /\ lastOp' = "putMasterChunk") =>
            /\ ~fed'[Len(fed')].ok
            /\ collectedFrames_' = collectedFrames_
       /\ (/\ MasterTaken
           /\ lastOp = "putMasterChunk"
           /\ ~fed[Len(fed)].ok
           /\ lastOp' = "putSlaveChunk"
           /\ ~isFrameCompleted(Built)
           /\ fed'[Len(fed')].at > 0
           /\ (IF extended THEN fed'[Len(fed')].at ELSE Len(Built.frame_.data))
                  + fed'[Len(fed')].size <= DeclaredIn(fed)) =>
            /\ fed'[Len(fed')].ok
            /\ collectedFrames_'[frame.id].collectedChunks_
                   = Built.collectedChunks_ + 1]_vars

\* a master chunk was taken, a second one declaring another frame size was
\* refused, and a slave chunk was then taken
OneMasterPerBuilderReached ==
    /\ lastOp = "putSlaveChunk"
    /\ Len(fed) = 3
    /\ fed[1].op = "master" /\ fed[1].ok
    /\ fed[2].op = "master" /\ ~fed[2].ok /\ fed[2].at # fed[1].at
    /\ fed[3].op = "slave" /\ fed[3].ok

\* C30: extended protocol, slave past the end.  Once the builder has taken
\* its master chunk, a slave chunk whose tail (frameOffset + payload length)
\* exceeds the frame size that master declared is refused and leaves the
\* builder as it was, whatever slave chunks were taken before the master.
SlavePastEndRefused ==
    [][(/\ extended
        /\ MasterTaken
        /\ lastOp' = "putSlaveChunk"
        /\ fed'[Len(fed')].at + fed'[Len(fed')].size > DeclaredIn(fed)) =>
            /\ ~fed'[Len(fed')].ok
            /\ collectedFrames_' = collectedFrames_]_vars

\* the metadata of a frame apart from its number
Metadata(f) == <<f.id, f.interpretation, f.time, f.priority, f.task, f.flow>>

\* C31: extended protocol, late master too small.  A master chunk put after
\* slave chunks is refused and leaves the builder as it was when
\* getChunkNumber(frameSize) is below the number of chunks collected; when it
\* is taken, the metadata seeded by the first slave chunk stays, the frame
\* number is the master's, the data bytes [0, payload length) are the
\* master's payload and every other byte collected so far stays, and
\* detectedChunks_ is getChunkNumber(frameSize).
LateMasterTooSmall ==
    [][(/\ extended
        /\ lastOp' = "putMasterChunk"
        /\ frame.id \in DOMAIN collectedFrames_
        /\ Built.collectedChunks_ > 0
        /\ ~Built.masterChunkFound_) =>
        LET call  == fed'[Len(fed')]
            after == collectedFrames_'[frame.id]
            count == getChunkNumber(call.at, TRUE)
        IN  /\ count < Built.collectedChunks_ =>
                 ~call.ok /\ collectedFrames_' = collectedFrames_
            /\ call.ok =>
                 /\ Metadata(after.frame_) = Metadata(Built.frame_)
                 /\ after.frame_.number = call.chunk.number
                 /\ Len(after.frame_.data) >= Len(Built.frame_.data)
                 /\ \A k \in 1..Len(after.frame_.data) :
                       IF k <= call.size
                       THEN after.frame_.data[k] = call.chunk.data[k]
                       ELSE k <= Len(Built.frame_.data) =>
                                after.frame_.data[k] = Built.frame_.data[k]
                 /\ after.detectedChunks_ = count]_vars

\* two slave chunks were taken and a master chunk declaring a frame of one
\* chunk was refused
LateMasterTooSmallReached ==
    /\ extended
    /\ lastOp = "putMasterChunk"
    /\ Len(fed) = 3
    /\ fed[1].op = "slave" /\ fed[1].ok
    /\ fed[2].op = "slave" /\ fed[2].ok
    /\ fed[3].op = "master" /\ ~fed[3].ok
    /\ getChunkNumber(fed[3].at, TRUE) < Built.collectedChunks_
    /\ ~Built.masterChunkFound_

\* C32: builder counter invariant, in both protocol variants.  For every
\* builder, detectedChunks_ is not 0 exactly when masterChunkFound_ is set;
\* detectedChunks_ is 0 or getChunkNumber of the frame size the taken master
\* declared; with masterChunkFound_, 1 <= collectedChunks_ <=
\* detectedChunks_; and the builder is complete exactly when the master was
\* taken and collectedChunks_ = detectedChunks_.
BuilderCounters ==
    \A id \in DOMAIN collectedFrames_ :
        LET b == collectedFrames_[id]
        IN  /\ (b.detectedChunks_ # 0) <=> b.masterChunkFound_
            /\ \/ b.detectedChunks_ = 0
               \/ /\ \E k \in 1..Len(fed) : fed[k].op = "master" /\ fed[k].ok
                  /\ b.detectedChunks_ =
                         getChunkNumber(DeclaredIn(fed), extended)
            /\ b.masterChunkFound_ =>
                   /\ 1 <= b.collectedChunks_
                   /\ b.collectedChunks_ <= b.detectedChunks_
            /\ isFrameCompleted(b) <=>
                   (b.masterChunkFound_ /\ b.collectedChunks_ = b.detectedChunks_)

\* a slave chunk, then the master chunk of a frame of three chunks, then a
\* second slave chunk were taken, and the builder is complete
BuilderCountersReached ==
    /\ Len(fed) = 3
    /\ fed[1].op = "slave" /\ fed[1].ok
    /\ fed[2].op = "master" /\ fed[2].ok
    /\ fed[3].op = "slave" /\ fed[3].ok
    /\ MasterTaken
    /\ Built.detectedChunks_ = 3
    /\ Built.collectedChunks_ = 3
    /\ isFrameCompleted(Built)

\* C35: a complete builder is absorbing.  While a builder has a detected
\* chunk count and has collected that many chunks, every putMasterChunk and
\* putSlaveChunk on it returns false and leaves its frame data, metadata,
\* masterChunkFound_, collectedChunks_ and detectedChunks_ as they were.
CompleteBuilderAbsorbing ==
    [][(/\ frame.id \in DOMAIN collectedFrames_
        /\ Built.detectedChunks_ # 0
        /\ Built.collectedChunks_ = Built.detectedChunks_
        /\ lastOp' \in {"putMasterChunk", "putSlaveChunk"}) =>
        /\ ~fed'[Len(fed')].ok
        /\ collectedFrames_'[frame.id] = Built
        /\ collectedFrames_' = collectedFrames_]_vars

\* the master chunk and the slave chunk of a frame of two chunks were taken,
\* and the same slave chunk put once more was refused
CompleteBuilderAbsorbingReached ==
    /\ Len(fed) = 3
    /\ fed[1].op = "master" /\ fed[1].ok
    /\ fed[2].op = "slave" /\ fed[2].ok
    /\ fed[3] = [fed[2] EXCEPT !.ok = FALSE]
    /\ lastOp = "putSlaveChunk"
    /\ Built.detectedChunks_ = 2
    /\ Built.collectedChunks_ = 2

\* C37: slave chunk numbers do not wrap.  For every frame serialize()
\* accepts, the slave chunks emitted number at most 65535, so that the
\* 16-bit number written with each slave chunk is its 1-based index among
\* the slave chunks of the frame.
SlaveNumbersFit ==
    (enc.pc \in {"loop", "returned"}) =>
       /\ enc.before.slaves + SlaveCount(enc.datagram.chunks) <= 65535
       /\ enc.slaveChunkNumber - 1 <= 65535

\* the datagrams of the frame with `id` among the deliveries `log`
OwnDeliveries(log, id) ==
    SelectSeq(log, LAMBDA i : FirstChunkFrameId(datagrams[i]) = id)

\* the builder table after the datagrams `indices` arrived alone, in this
\* order, at a receiver that had collected nothing
RECURSIVE DeliveredAlone(_)
DeliveredAlone(indices) ==
    IF indices = <<>> THEN <<>>
    ELSE deserialize(DeliveredAlone(SubSeq(indices, 1, Len(indices) - 1)),
                     datagrams[indices[Len(indices)]], endianness_, extended)

\* C33: independent frames.  When the datagrams of two frames with different
\* ids are interleaved so that each frame's datagrams keep their emission
\* order, the builder of each frame is at every moment the one its own
\* datagrams alone would have produced, both builders are complete once
\* every datagram arrived, and completedFrames() then returns the two
\* frames, each equal to its original.
IndependentFrames ==
    /\ lastOp = "deserialize" =>
          /\ \A id \in {frame.id, Partner.id} :
                LET own == OwnDeliveries(fed, id)
                IN  IF own = <<>> THEN id \notin DOMAIN collectedFrames_
                    ELSE /\ id \in DOMAIN collectedFrames_
                         /\ collectedFrames_[id] = DeliveredAlone(own)[id]
          /\ DOMAIN collectedFrames_ \subseteq {frame.id, Partner.id}
          /\ AllDelivered =>
                CompleteIds(collectedFrames_) = {frame.id, Partner.id}
    /\ lastOp = "completedFrames" =>
          /\ Len(completed) = 2
          /\ \E k \in 1..2 : /\ SameFrame(completed[k], frame)
                             /\ SameFrame(completed[3 - k], Partner)
          /\ collectedFrames_ = <<>>

\* a datagram of the second frame arrived between the two datagrams of the
\* first, and completedFrames() returned two frames
IndependentFramesReached ==
    /\ lastOp = "completedFrames"
    /\ Len(completed) = 2
    /\ Len(fed) = 6
    /\ FirstChunkFrameId(datagrams[fed[1]]) = frame.id
    /\ FirstChunkFrameId(datagrams[fed[2]]) = Partner.id
    /\ FirstChunkFrameId(datagrams[fed[3]]) = frame.id

\* C34: a rejected chunk leaves the builder table unchanged.  When
\* deserialize() parses a chunk that putMasterChunk or putSlaveChunk
\* refuses (a master chunk with frameSize 0, an extended slave chunk with
\* frameOffset 0), no builder is created for its frame id and no builder
\* changes, so that every builder of the table has taken at least one chunk.
RefusedChunkLeavesTable ==
    [][lastOp' = "refused" =>
          /\ collectedFrames_' = collectedFrames_
          /\ \A id \in DOMAIN collectedFrames_' :
                collectedFrames_'[id].collectedChunks_ >= 1]_vars

\* C39: the decoder stays inside the datagram.  For every chunk
\* deserialize() hands to a builder, the header fields were read from
\* inside the datagram, behind the datagram header, and the payload slice
\* [position, position + chunkSize - headerSize) lies inside the datagram;
\* no chunk is handed over whose declared size runs past the end of the
\* datagram.  The chunks logged are the ones deserialize() applied.
DecoderStaysInside ==
    [][lastOp' = "logged" =>
        LET datagram == Pack(probe'.tokens)
            log      == probe'.log
        IN  /\ \A k \in 1..Len(log) :
                  /\ log[k].pos >= DATAGRAM_HEADER_SIZE
                  /\ log[k].read <= Len(datagram)
                  /\ log[k].read - log[k].pos =
                        (IF log[k].master THEN CHUNK_MASTER_HEADER_SIZE
                         ELSE CHUNK_SLAVE_HEADER_SIZE(extended))
                  /\ log[k].size >= 1
                  /\ log[k].read + log[k].size <= Len(datagram)
                  /\ log[k].pos + log[k].chunkSize <= Len(datagram)
                  /\ k > 1 => log[k].pos = log[k - 1].position
            /\ collectedFrames_' =
                  ApplyDispatches(collectedFrames_, datagram, log,
                                  endianness_, extended)]_vars

\* a datagram of an intact chunk and a chunk that lost its last byte: one
\* chunk was handed to a builder
DecoderStaysInsideReached ==
    /\ lastOp = "logged"
    /\ Len(probe.tokens) = 2
    /\ probe.tokens[1].fault = 0
    /\ probe.tokens[2].fault = 4
    /\ Len(probe.log) = 1
    /\ FrameOf(probe.tokens[1].owner).id \in DOMAIN collectedFrames_

\* C36: reassembly buffer bound.  For every sequence of datagrams that pass
\* the header and CRC validation, the frame data of every builder hold at
\* most FRAME_MAX_SIZE bytes, and for every slave chunk handed to a builder
\* frameOffset + payload length does not pass the largest signed 32-bit
\* integer.
ReassemblyBufferBound ==
    /\ \A id \in DOMAIN collectedFrames_ :
          Len(collectedFrames_[id].frame_.data) <= FRAME_MAX_SIZE
    /\ lastOp \in {"logged", "far"} =>
          \A k \in 1..Len(probe.log) :
             ~probe.log[k].master =>
                 probe.log[k].at <= INT_MAX - probe.log[k].size

\* the tokens of the lower-cased line
LineTokens == split(toLower(probe.line), 32)

\* the 1-based place of the first '=' of a token that has one
FirstEquals(token) ==
    CHOOSE p \in 1..Len(token) :
        token[p] = 61 /\ \A q \in 1..(p - 1) : token[q] # 61

HasEquals(token) == \E p \in 1..Len(token) : token[p] = 61

KeyOf(token) ==
    ToQString(decodeBase64(trimmed(SubSeq(token, 1, FirstEquals(token) - 1))))

ValueOf(token) ==
    ToQString(decodeBase64(trimmed(SubSeq(token, FirstEquals(token) + 1,
                                          Len(token)))))

\* the first '=' of the token is neither its first nor its last character
SplitsInside(token) ==
    /\ HasEquals(token)
    /\ FirstEquals(token) > 1
    /\ FirstEquals(token) < Len(token)

\* the token has a '=', and neither its first nor its last character is '='
NoEqualsAtEnds(token) ==
    /\ HasEquals(token)
    /\ token[1] # 61
    /\ token[Len(token)] # 61

\* the dictionary holds exactly the keys of the tokens kept by Kept whose
\* decoded key is not empty, each with the value of the last such token
DictionaryOf(Kept(_)) ==
    LET tokens     == LineTokens
        Entered(i) == Kept(tokens[i]) /\ KeyOf(tokens[i]) # <<>>
        dictionary == probe.parameterDictionary
    IN  /\ \A i \in 1..Len(tokens) :
              Entered(i) => KeyOf(tokens[i]) \in DOMAIN dictionary
        /\ \A key \in DOMAIN dictionary :
              \E i \in 1..Len(tokens) :
                 /\ Entered(i)
                 /\ KeyOf(tokens[i]) = key
                 /\ dictionary[key] = ValueOf(tokens[i])
                 /\ \A j \in (i + 1)..Len(tokens) :
                       Entered(j) => KeyOf(tokens[j]) # key

\* C38 as stated: deserialize() lower-cases the line, splits it on ' ',
\* splits each token at its first '=', skips every token that has no '=' or
\* has '=' as its first or as its last character, inserts an entry only
\* when the decoded key is not empty, and keeps the value of the last token
\* among those with the same key.
InterprocessDecodeRuleAsStated ==
    lastOp = "interprocess" => DictionaryOf(NoEqualsAtEnds)

\* C38: interprocess decode rule.  deserialize() lower-cases the line,
\* splits it on ' ', splits each token at its first '=', skips every token
\* that has no '=' or whose first '=' is its first or its last character,
\* inserts an entry only when the decoded key is not empty, and keeps the
\* value of the last token among those with the same key.
InterprocessDecodeRule ==
    lastOp = "interprocess" => DictionaryOf(SplitsInside)

\* the line "aa=aa aa=ag": two tokens with the key "i", the value of the
\* second one kept
InterprocessDecodeRuleReached ==
    /\ lastOp = "interprocess"
    /\ probe.line = <<97, 97, 61, 97, 97, 32, 97, 97, 61, 97, 103>>
    /\ probe.parameterDictionary = (<<105>> :> <<106>>)

====
